---- MODULE Spec2Model ----
(***************************************************************************)
(* Robot runtime of the Pico-Go LAN robot (src/firmware): startup          *)
(* (main.py RobotController.initialize), the cooperative tasks started by  *)
(* RobotController.run (UDP receive task ws_server.udp_server, watchdog    *)
(* task Watchdog.monitor_loop, main loop), the safety controller           *)
(* (watchdog.py) and the differential drive (motor.py).                    *)
(*                                                                         *)
(* Units: time in milliseconds (time.ticks_ms), axis and wheel values in   *)
(* thousandths (1000 = 1.0).                                               *)
(***************************************************************************)
EXTENDS Integers, Sequences, FiniteSets, TLC

(***************************************************************************)
(* Bounds of the model                                                     *)
(***************************************************************************)
\* the clock stops advancing here
MaxTime == 650
\* udp_server's packets_received is counted up to this value and then held
MaxCount == 2

(***************************************************************************)
(* Program constants                                                       *)
(***************************************************************************)
WATCHDOG_TIMEOUT_MS == 500
CONTROL_RATE_HZ == 30
MONITOR_SLEEP_MS == 50
MAIN_LOOP_MS == 50
UDP_MAX_AGE_MS == 500
TCP_MAX_AGE_MS == 200
MAX_SPEED == 1000
TURN_RATE == 800
MOTOR_MAX_DUTY == 65535
ONE == 1000
\* value of int(time.time() * 1000) when ticks_ms() is 0
WallEpoch == 100000
\* the clock advances in periods of the watchdog task
TimeStep == MONITOR_SLEEP_MS

\* config.py: the profile flashed on this robot and the profiles a client may set
ROBOT_PROFILE == 0
ROBOT_ID == ROBOT_PROFILE
ROBOT_PROFILES ==
    [i \in {0, 4} |-> IF i = 0 THEN [name |-> "WHITE", color |-> <<255, 255, 255>>]
                              ELSE [name |-> "NITRO", color |-> <<0, 255, 0>>]]
\* UnderglowController has no robot_color until set_profile assigns one
NoColor == <<>>
\* udp_server sent nothing
NoReply == [type |-> "none"]
\* calibration.calibration_manager is None
NoManager == [set |-> FALSE]
\* /calibration.json does not exist
NoFile == [exists |-> FALSE]
\* no _send_profile_config call is in progress
NoProfile == [by |-> "none"]

STATE_BOOT == "BOOT"
STATE_NET_UP == "NET_UP"
STATE_CLIENT_OK == "CLIENT_OK"
STATE_DRIVING == "DRIVING"
STATE_LINK_LOST == "LINK_LOST"
STATE_E_STOP == "E_STOP"
NoState == "NONE"

VARIABLES
    phase,             \* RobotController: "init" (initialize), "run", "failed", "terminated"
    step,              \* index of the next statement of initialize
    net_up,            \* wifi_manager.is_connected() held when initialize checked it
    init_log,          \* startup steps performed so far, in order
    now,               \* time.ticks_ms()
    motor_enabled,     \* DifferentialDrive.enabled
    left_speed,        \* left_motor.current_speed
    right_speed,       \* right_motor.current_speed
    wd_enabled,        \* Watchdog.enabled
    timed_out,         \* Watchdog.timed_out
    last_packet_time,  \* Watchdog.last_packet_time
    e_stop_active,     \* SafetyController.e_stop_active
    startup_complete,  \* SafetyController.startup_complete
    lcd_state,         \* LCDStatus.current_state
    ug_state,          \* state last given to UnderglowController.set_state
    client_connected,  \* udp_server local
    packets_received,  \* udp_server local
    udp_pc,            \* udp_server: "sleep" = awaiting sleep_ms(1), "poll" = back at the loop top without having yielded
    wd_sleep,          \* ms left of monitor_loop's sleep_ms(50); 0 = the task is ready to run
    main_sleep,        \* ms left of the main loop's sleep_ms(MAIN_LOOP_MS); 0 = ready to run
    main_pc,           \* main loop: "sleep" = awaiting sleep_ms(MAIN_LOOP_MS), "reconnect" = awaiting wifi_manager.reconnect()
    tcp_open,          \* a handle_tcp_client coroutine is serving a connection
    ROBOT_NAME,        \* config.ROBOT_NAME
    ROBOT_COLOR,       \* config.ROBOT_COLOR
    robot_color,       \* UnderglowController.robot_color, an attribute only set_profile creates
    sent,              \* what sock.sendto sent during udp_server's latest pass, NoReply if nothing
    last_seq,          \* udp_server local
    calibration_manager, \* calibration.calibration_manager: NoManager or the manager's calibration dict
    cal_file,          \* content of /calibration.json on the flash
    app_pc,            \* ControllerApp.run: "connect", "loop", "profile" (awaiting _on_profile_selected), "shutdown" (shutdown's sleep), "done"
    running,           \* ControllerApp.running
    connected,         \* RobotConnection.connected
    sock,              \* RobotConnection.sock: "none", "open" or "closed"
    seq_num,           \* RobotConnection.seq_num
    conn_calibration,  \* RobotConnection.calibration
    prof,              \* the _send_profile_config call in progress, NoProfile if none
    since_drive,       \* ms since the host last put a drive packet on the wire
    wire,              \* the last packets the host put on the wire, oldest first
    scan_pc,           \* discover_robots_on_network: "scan" (collecting replies) or "done"
    seen_ips,          \* discover_robots_on_network local
    robots,            \* discover_robots_on_network local, the list it returns
    replies,           \* number of datagrams the scan has received
    left_motor,        \* a Motor object driven call by call: pwm duty, in1, in2 and
                       \* current_speed, with the state before the last call (prev)
                       \* and the last call (call, arg)
    kbd                \* the KeyboardController the app falls back to (used = TRUE)
                       \* when no joystick is found: throttle, steer, the pair its
                       \* last get_axes returned (out), the number of get_axes calls

vars == <<phase, step, net_up, init_log, now, motor_enabled, left_speed, right_speed, wd_enabled,
          timed_out, last_packet_time, e_stop_active, startup_complete, lcd_state,
          ug_state, client_connected, packets_received, udp_pc, wd_sleep, main_sleep,
          main_pc, tcp_open, ROBOT_NAME, ROBOT_COLOR, robot_color, sent, last_seq,
          calibration_manager, cal_file, app_pc, running, connected, sock, seq_num,
          conn_calibration, prof, since_drive, wire, scan_pc, seen_ips, robots, replies,
          left_motor, kbd>>

motorVars == <<motor_enabled, left_speed, right_speed>>
wdVars == <<wd_enabled, timed_out, last_packet_time>>
indVars == <<lcd_state, ug_state>>
udpVars == <<client_connected, packets_received, udp_pc>>
schedVars == <<wd_sleep, main_sleep, main_pc>>
initVars == <<phase, step, net_up, init_log>>
profileVars == <<ROBOT_NAME, ROBOT_COLOR, robot_color>>
calVars == <<calibration_manager, cal_file>>
cfgVars == <<profileVars, sent, last_seq, calVars>>
hostVars == <<app_pc, running, connected, sock, seq_num, conn_calibration, prof, since_drive, wire>>
scanVars == <<scan_pc, seen_ips, robots, replies>>
unitVars == <<left_motor, kbd>>
ctlVars == <<hostVars, scanVars, unitVars>>
fwVars == <<initVars, now, motorVars, wdVars, e_stop_active, startup_complete, indVars, udpVars,
            schedVars, tcp_open, cfgVars>>

(***************************************************************************)
(* utils.py                                                                *)
(***************************************************************************)
Abs(x) == IF x < 0 THEN -x ELSE x
Max(a, b) == IF a > b THEN a ELSE b
Min(a, b) == IF a < b THEN a ELSE b

clamp(value, min_val, max_val) == Max(min_val, Min(max_val, value))

time_diff_ms(start_ticks, end_ticks) == end_ticks - start_ticks

\* a / b for thousandths, rounded toward zero
DivT(a, b) == IF a >= 0 THEN a \div b ELSE -((-a) \div b)

(***************************************************************************)
(* motor.py                                                                *)
(***************************************************************************)
\* Motor.set_speed: the current_speed it leaves (stop() below 0.01)
set_speed(speed) ==
    LET s == clamp(speed, -ONE, ONE)
    IN IF Abs(s) < 10 THEN 0 ELSE s

\* Motor.stop: the pins and current_speed it leaves
Motor_stop(m) == [pwm |-> 0, in1 |-> 0, in2 |-> 0, current_speed |-> 0]

\* Motor.set_speed without the branch for a speed below 0.01
Motor_set_speed_no_coast(m, speed) ==
    LET s == clamp(speed, -ONE, ONE)
    IN [pwm |-> (Abs(s) * MOTOR_MAX_DUTY) \div ONE,
        in1 |-> IF s >= 0 THEN 0 ELSE 1,
        in2 |-> IF s >= 0 THEN 1 ELSE 0,
        current_speed |-> s]

\* Motor.set_speed that raises the line of the new direction and leaves the
\* other line as it is
Motor_set_speed_one_line(m, speed) ==
    LET s == clamp(speed, -ONE, ONE)
    IN IF Abs(s) < 10
       THEN Motor_stop([m EXCEPT !.current_speed = s])
       ELSE [pwm |-> (Abs(s) * MOTOR_MAX_DUTY) \div ONE,
             in1 |-> IF s >= 0 THEN m.in1 ELSE 1,
             in2 |-> IF s >= 0 THEN 1 ELSE m.in2,
             current_speed |-> s]

\* Motor.set_speed: the pins and current_speed it leaves
Motor_set_speed(m, speed) ==
    LET s == clamp(speed, -ONE, ONE)
    IN IF Abs(s) < 10
       THEN Motor_stop([m EXCEPT !.current_speed = s])
       ELSE [pwm |-> (Abs(s) * MOTOR_MAX_DUTY) \div ONE,
             in1 |-> IF s >= 0 THEN 0 ELSE 1,
             in2 |-> IF s >= 0 THEN 1 ELSE 0,
             current_speed |-> s]

\* DifferentialDrive.drive: the raw wheel speeds after the config limits
mix_raw(throttle, steer) ==
    LET t == DivT(clamp(throttle, -ONE, ONE) * MAX_SPEED, ONE)
        s == DivT(clamp(steer, -ONE, ONE) * TURN_RATE, ONE)
    IN <<t + s, t - s>>

\* the mixer as sum-and-clamp: each wheel clipped on its own
mix_sum_and_clamp(throttle, steer) ==
    <<clamp(mix_raw(throttle, steer)[1], -ONE, ONE),
      clamp(mix_raw(throttle, steer)[2], -ONE, ONE)>>

\* the mixer without normalisation and without the final clamp
mix_unlimited(throttle, steer) == <<throttle + steer, throttle - steer>>

\* DifferentialDrive.drive: the (left, right) pair handed to set_speed
mix(throttle, steer) ==
    LET t == DivT(clamp(throttle, -ONE, ONE) * MAX_SPEED, ONE)
        s == DivT(clamp(steer, -ONE, ONE) * TURN_RATE, ONE)
        left_speed_raw == t + s
        right_speed_raw == t - s
        max_magnitude == Max(Abs(left_speed_raw), Abs(right_speed_raw))
        l == IF max_magnitude > ONE THEN DivT(left_speed_raw * ONE, max_magnitude)
             ELSE left_speed_raw
        r == IF max_magnitude > ONE THEN DivT(right_speed_raw * ONE, max_magnitude)
             ELSE right_speed_raw
    IN <<clamp(l, -ONE, ONE), clamp(r, -ONE, ONE)>>

\* DifferentialDrive.drive with the enabled flag en
drive(en, throttle, steer) ==
    IF ~en THEN UNCHANGED <<left_speed, right_speed>>
    ELSE /\ left_speed' = set_speed(mix(throttle, steer)[1])
         /\ right_speed' = set_speed(mix(throttle, steer)[2])

\* DifferentialDrive.stop
stop ==
    /\ left_speed' = 0
    /\ right_speed' = 0

(***************************************************************************)
(* watchdog.py: Watchdog                                                   *)
(***************************************************************************)
\* feed without the recovery branch: timed_out is left as it was
feed_no_recovery ==
    /\ last_packet_time' = now
    /\ UNCHANGED timed_out

\* Watchdog.feed: timer and timed_out
feed ==
    /\ last_packet_time' = now
    /\ timed_out' = FALSE

\* Watchdog.feed: what the LCD shows after it, having shown s before (recovery publishes DRIVING)
feed_lcd(s) == IF timed_out THEN STATE_DRIVING ELSE s

\* Watchdog.feed: what the underglow was last given after it, s before
feed_ug(s) == IF timed_out THEN STATE_DRIVING ELSE s

\* Watchdog.enable
enable ==
    /\ wd_enabled' = TRUE
    /\ feed

\* Watchdog.disable
disable ==
    /\ wd_enabled' = FALSE
    /\ timed_out' = FALSE
    /\ UNCHANGED last_packet_time

\* _handle_timeout without its motor_controller.stop()
handle_timeout_no_stop ==
    /\ timed_out' = TRUE
    /\ UNCHANGED <<left_speed, right_speed>>
    /\ lcd_state' = STATE_LINK_LOST
    /\ ug_state' = STATE_LINK_LOST

\* Watchdog._handle_timeout
handle_timeout ==
    /\ timed_out' = TRUE
    /\ stop
    /\ lcd_state' = STATE_LINK_LOST
    /\ ug_state' = STATE_LINK_LOST

\* check_timeout that compares elapsed with twice timeout_ms
check_timeout_late ==
    IF /\ wd_enabled
       /\ time_diff_ms(last_packet_time, now) > 2 * WATCHDOG_TIMEOUT_MS
       /\ ~timed_out
    THEN handle_timeout
    ELSE UNCHANGED <<timed_out, left_speed, right_speed, lcd_state, ug_state>>

\* check_timeout that compares elapsed with >= instead of >
check_timeout_at_timeout ==
    IF /\ wd_enabled
       /\ time_diff_ms(last_packet_time, now) >= WATCHDOG_TIMEOUT_MS
       /\ ~timed_out
    THEN handle_timeout
    ELSE UNCHANGED <<timed_out, left_speed, right_speed, lcd_state, ug_state>>

\* Watchdog.check_timeout
check_timeout ==
    IF /\ wd_enabled
       /\ time_diff_ms(last_packet_time, now) > WATCHDOG_TIMEOUT_MS
       /\ ~timed_out
    THEN handle_timeout
    ELSE UNCHANGED <<timed_out, left_speed, right_speed, lcd_state, ug_state>>

(***************************************************************************)
(* main.py: RobotController.initialize                                     *)
(***************************************************************************)
\* initialize with startup_complete_ok called before the network is up
initialize_enable_first ==
    <<"indicators", "motor_init", "watchdog_init", "motor_enable", "watchdog_arm",
      "wifi", "net_up", "server_init">>

\* the statements of initialize in program order; the last two are the body
\* of SafetyController.startup_complete_ok
initialize ==
    <<"indicators", "motor_init", "watchdog_init", "wifi", "net_up",
      "server_init", "motor_enable", "watchdog_arm">>

Init ==
    /\ phase = "init"
    /\ step = 1
    /\ net_up = FALSE
    /\ init_log = <<>>
    /\ now = 0
    /\ motor_enabled = FALSE
    /\ left_speed = 0
    /\ right_speed = 0
    /\ wd_enabled = FALSE
    /\ timed_out = FALSE
    /\ last_packet_time = 0
    /\ e_stop_active = FALSE
    /\ startup_complete = FALSE
    /\ lcd_state = NoState
    /\ ug_state = NoState
    /\ client_connected = FALSE
    /\ packets_received = 0
    /\ udp_pc = "sleep"
    /\ wd_sleep = 0
    /\ main_sleep = 0
    /\ main_pc = "sleep"
    /\ tcp_open = FALSE
    /\ ROBOT_NAME = ROBOT_PROFILES[ROBOT_PROFILE].name
    /\ ROBOT_COLOR = ROBOT_PROFILES[ROBOT_PROFILE].color
    /\ robot_color = NoColor
    /\ sent = NoReply
    /\ last_seq = 0
    /\ calibration_manager = NoManager
    /\ cal_file = NoFile
    /\ app_pc = "connect"
    /\ running = TRUE
    /\ connected = FALSE
    /\ sock = "none"
    /\ seq_num = 0
    /\ conn_calibration = [steering_trim |-> 0]
    /\ prof = NoProfile
    /\ since_drive = 0
    /\ wire = <<>>
    /\ scan_pc = "scan"
    /\ seen_ips = {}
    /\ robots = <<>>
    /\ replies = 0
    /\ left_motor = [m |-> Motor_stop(<<>>), prev |-> Motor_stop(<<>>), call |-> "init", arg |-> 0]
    /\ kbd = [used |-> FALSE, throttle |-> 0, steer |-> 0, out |-> <<0, 0>>, frames |-> 0]

\* one statement of initialize
Exec(stmt) ==
    CASE stmt = "indicators" ->
            /\ lcd_state' = STATE_BOOT
            /\ ug_state' = STATE_BOOT
            /\ UNCHANGED <<net_up, now, motorVars, wdVars, e_stop_active, startup_complete>>
      [] stmt = "motor_init" ->
            /\ motor_enabled' = FALSE
            /\ stop
            /\ UNCHANGED <<net_up, now, wdVars, e_stop_active, startup_complete, indVars>>
      [] stmt = "watchdog_init" ->
            /\ wd_enabled' = FALSE
            /\ timed_out' = FALSE
            /\ last_packet_time' = 0
            /\ e_stop_active' = FALSE
            /\ startup_complete' = FALSE
            /\ UNCHANGED <<net_up, now, motorVars, indVars>>
      [] stmt = "wifi" ->
            /\ net_up' \in BOOLEAN
            /\ now' = now + TimeStep
            /\ UNCHANGED <<motorVars, wdVars, e_stop_active, startup_complete, indVars>>
      [] stmt = "net_up" ->
            /\ lcd_state' = STATE_NET_UP
            /\ ug_state' = STATE_NET_UP
            /\ UNCHANGED <<net_up, now, motorVars, wdVars, e_stop_active, startup_complete>>
      [] stmt = "server_init" ->
            UNCHANGED <<net_up, now, motorVars, wdVars, e_stop_active, startup_complete, indVars>>
      [] stmt = "motor_enable" ->
            /\ startup_complete' = TRUE
            /\ motor_enabled' = TRUE
            /\ stop
            /\ UNCHANGED <<net_up, now, wdVars, e_stop_active, indVars>>
      [] stmt = "watchdog_arm" ->
            /\ enable
            /\ UNCHANGED <<net_up, now, motorVars, e_stop_active, startup_complete, indVars>>

\* initialize runs its next statement
InitStep ==
    /\ phase = "init"
    /\ step <= Len(initialize)
    /\ ~(initialize[step] = "net_up" /\ ~net_up)
    /\ Exec(initialize[step])
    /\ init_log' = Append(init_log, initialize[step])
    /\ step' = step + 1
    /\ phase' = IF step = Len(initialize) THEN "run" ELSE "init"
    /\ wd_sleep' = 0
    /\ main_sleep' = 0
    /\ UNCHANGED main_pc
    /\ UNCHANGED <<udpVars, tcp_open>>
    /\ UNCHANGED <<cfgVars, ctlVars>>

\* initialize raises "Failed to connect to Wi-Fi" and main() exits
InitFail ==
    /\ phase = "init"
    /\ step <= Len(initialize)
    /\ initialize[step] = "net_up"
    /\ ~net_up
    /\ phase' = "failed"
    /\ UNCHANGED <<step, net_up, init_log, now, motorVars, wdVars, e_stop_active,
                   startup_complete, indVars, udpVars, schedVars, tcp_open>>
    /\ UNCHANGED <<cfgVars, ctlVars>>

(***************************************************************************)
(* watchdog.py: SafetyController                                           *)
(***************************************************************************)
\* SafetyController.trigger_e_stop
trigger_e_stop ==
    /\ e_stop_active' = TRUE
    /\ stop
    /\ motor_enabled' = FALSE
    /\ disable
    /\ lcd_state' = STATE_E_STOP
    /\ UNCHANGED ug_state

\* SafetyController.clear_e_stop
clear_e_stop ==
    IF ~e_stop_active
    THEN UNCHANGED <<e_stop_active, motorVars, wdVars>>
    ELSE /\ e_stop_active' = FALSE
         /\ motor_enabled' = TRUE
         /\ stop
         /\ enable

\* SafetyController.check_safety
check_safety ==
    IF e_stop_active
    THEN UNCHANGED <<timed_out, left_speed, right_speed, lcd_state, ug_state>>
    ELSE check_timeout

(***************************************************************************)
(* ws_server.py: packet handling                                           *)
(***************************************************************************)
\* int(time.time() * 1000): time.time() counts whole seconds
CurrentTime == ((WallEpoch + now) \div 1000) * 1000

\* age_ms of the drive packets offered to the robot
Ages == {-1500, 201, 500, 501}

Cmds == {"discover", "get_calibration", "set_calibration", "set_profile", "drive", "other"}

\* cmds whose branch of udp_server ends in `continue`
ContinueCmds == {"discover", "get_calibration", "set_calibration", "set_profile"}

\* (throttle, steer) pairs of the drive packets offered to the robot
Axes == {<<0, 0>>, <<500, 0>>, <<1000, 1000>>}

\* dict.get(key, default) on a field that is <<>> when the key is missing
\* and <<v>> when it is present
get(field, default) == IF field = <<>> THEN default ELSE field[1]

\* the color a set_profile packet without "color" is read with
DefaultColor == <<255, 255, 255>>

\* a packet as udp_server reads it. json = FALSE is text json.loads rejects
\* (or JSON that is no object, on which packet.get raises); cmd = "none" is a
\* packet without cmd; ts = 0 stands for a packet without ts, as
\* packet.get("ts", 0) reads it; name = "" for a packet without name;
\* color_is_list = FALSE is a color that is a JSON number, not a list;
\* addr is the sender recvfrom reports
Packet0 ==
    [json |-> TRUE, cmd |-> "other", seq |-> <<0>>, ts |-> 0, throttle |-> 0, steer |-> 0,
     robot_id |-> <<>>, name |-> "", color |-> DefaultColor, color_is_list |-> TRUE,
     calibration |-> <<>>, enable |-> FALSE, addr |-> "host1"]

\* the datagrams that may arrive while the robot runs: malformed ones, the
\* commands without payload, and drive packets of every age and axis pair
Datagrams ==
    {[Packet0 EXCEPT !.json = FALSE]}
    \cup {[Packet0 EXCEPT !.cmd = c, !.ts = CurrentTime] : c \in Cmds \ {"drive"}}
    \cup {[Packet0 EXCEPT !.cmd = "drive", !.ts = t, !.throttle = a[1], !.steer = a[2]] :
             t \in {0} \cup {CurrentTime - g : g \in Ages}, a \in Axes}

\* a freshness check that also rejects a packet without a positive ts
Stale_without_ts(p, max_age_ms) ==
    \/ p.ts <= 0
    \/ CurrentTime - p.ts > max_age_ms

\* a freshness check that always uses the UDP limit
Stale_udp_limit(p, max_age_ms) ==
    /\ p.ts > 0
    /\ CurrentTime - p.ts > UDP_MAX_AGE_MS

\* _process_drive_command's freshness check rejects the packet
Stale(p, max_age_ms) ==
    /\ p.ts > 0
    /\ CurrentTime - p.ts > max_age_ms

\* _process_drive_command that also rejects a packet whose seq is not above
\* the last one seen
process_drive_command_in_order(p, ug_given, packet_count, max_age_ms, lcd0, ug0) ==
    IF Stale(p, max_age_ms) \/ get(p.seq, 0) <= last_seq
    THEN /\ lcd_state' = lcd0
         /\ ug_state' = ug0
         /\ UNCHANGED <<motorVars, wdVars>>
    ELSE /\ feed
         /\ UNCHANGED wd_enabled
         /\ motor_enabled' = TRUE
         /\ drive(TRUE, p.throttle, p.steer)
         /\ lcd_state' = STATE_DRIVING
         /\ ug_state' = IF ug_given /\ packet_count = 1 THEN STATE_DRIVING ELSE feed_ug(ug0)

\* _process_drive_command: effect on watchdog, motors and indicators; lcd0 and
\* ug0 are what the indicators showed when it was called, ug_given whether an
\* underglow was passed
process_drive_command(p, ug_given, packet_count, max_age_ms, lcd0, ug0) ==
    IF Stale(p, max_age_ms)
    THEN /\ lcd_state' = lcd0
         /\ ug_state' = ug0
         /\ UNCHANGED <<motorVars, wdVars>>
    ELSE /\ feed
         /\ UNCHANGED wd_enabled
         /\ motor_enabled' = TRUE
         /\ drive(TRUE, p.throttle, p.steer)
         /\ lcd_state' = STATE_DRIVING
         /\ ug_state' = IF ug_given /\ packet_count = 1 THEN STATE_DRIVING ELSE feed_ug(ug0)

\* packets_received += 1, counted up to MaxCount
Bump(n) == Min(n + 1, MaxCount)

\* udp_server's discover branch: what it sends. calibration.get_calibration()
\* raises AttributeError (calibration.py defines no get_calibration) inside the
\* try that builds the robot_info, and the except clause only logs
discover_reply(p) == NoReply

\* _process_get_calibration_command: what it sends; calibration.get_calibration()
\* raises AttributeError as above and the except clause only logs
process_get_calibration_command(p) == NoReply

\* _process_set_calibration_command: returns False on a packet without
\* calibration data; otherwise calibration.get_calibration() raises
\* AttributeError and the except clause returns False. Nothing is stored
process_set_calibration_command(p) == UNCHANGED calVars

\* a profile_response
profile_response(p, ok, why) ==
    IF ok
    THEN [type |-> "profile_response", to |-> p.addr, success |-> TRUE, message |-> why,
          robot_id |-> p.robot_id[1], name |-> p.name, color |-> p.color]
    ELSE [type |-> "profile_response", to |-> p.addr, success |-> FALSE, message |-> why]

\* _process_set_profile_command. underglow.set_color_all and
\* lcd_display.refresh_current_state do not exist; their AttributeError is
\* caught by the try around each call, after underglow.robot_color was assigned
process_set_profile_command(p) ==
    IF p.name = "" \/ p.robot_id = <<>>
    THEN /\ sent' = profile_response(p, FALSE, "Missing robot_id or name")
         /\ UNCHANGED profileVars
    ELSE IF p.robot_id[1] # ROBOT_ID
    THEN /\ sent' = profile_response(p, FALSE, "Robot ID mismatch")
         /\ UNCHANGED profileVars
    ELSE IF ~p.color_is_list
    THEN \* tuple(color) raises TypeError after config.ROBOT_NAME was assigned
         /\ ROBOT_NAME' = p.name
         /\ UNCHANGED <<ROBOT_COLOR, robot_color>>
         /\ sent' = profile_response(p, FALSE, "TypeError")
    ELSE /\ ROBOT_NAME' = p.name
         /\ ROBOT_COLOR' = p.color
         /\ robot_color' = p.color
         /\ sent' = profile_response(p, TRUE, "Profile updated")

\* udp_server: json.loads or packet.get raised; the except clause logs
parse_error(p, lcd1, ug1) ==
    /\ lcd_state' = lcd1
    /\ ug_state' = ug1
    /\ udp_pc' = "sleep"
    /\ sent' = NoReply
    /\ UNCHANGED <<packets_received, motorVars, wdVars, last_seq, profileVars, calVars>>

\* continue_branch that feeds the watchdog for every parsed packet
continue_branch_feeds(p, lcd1, ug1) ==
    /\ lcd_state' = lcd1
    /\ ug_state' = ug1
    /\ last_seq' = get(p.seq, 0)
    /\ packets_received' = Bump(packets_received)
    /\ CASE p.cmd = "discover" ->
               /\ sent' = discover_reply(p)
               /\ UNCHANGED <<profileVars, calVars>>
         [] p.cmd = "get_calibration" ->
               /\ sent' = process_get_calibration_command(p)
               /\ UNCHANGED <<profileVars, calVars>>
         [] p.cmd = "set_calibration" ->
               /\ process_set_calibration_command(p)
               /\ sent' = NoReply
               /\ UNCHANGED profileVars
         [] p.cmd = "set_profile" ->
               /\ process_set_profile_command(p)
               /\ UNCHANGED calVars
    /\ udp_pc' = "poll"
    /\ feed
    /\ UNCHANGED <<motorVars, wd_enabled>>

\* udp_server: a parsed packet whose cmd has a branch ending in `continue`
continue_branch(p, lcd1, ug1) ==
    /\ lcd_state' = lcd1
    /\ ug_state' = ug1
    /\ last_seq' = get(p.seq, 0)
    /\ packets_received' = Bump(packets_received)
    /\ CASE p.cmd = "discover" ->
               /\ sent' = discover_reply(p)
               /\ UNCHANGED <<profileVars, calVars>>
         [] p.cmd = "get_calibration" ->
               /\ sent' = process_get_calibration_command(p)
               /\ UNCHANGED <<profileVars, calVars>>
         [] p.cmd = "set_calibration" ->
               /\ process_set_calibration_command(p)
               /\ sent' = NoReply
               /\ UNCHANGED profileVars
         [] p.cmd = "set_profile" ->
               /\ process_set_profile_command(p)
               /\ UNCHANGED calVars
    /\ udp_pc' = "poll"
    /\ UNCHANGED <<motorVars, wdVars>>

\* udp_server: a parsed drive packet
drive_branch(p, lcd1, ug1) ==
    /\ process_drive_command(p, TRUE, Bump(packets_received), UDP_MAX_AGE_MS, lcd1, ug1)
    /\ last_seq' = get(p.seq, 0)
    /\ packets_received' = IF Stale(p, UDP_MAX_AGE_MS)
                           THEN Bump(packets_received)
                           ELSE Bump(Bump(packets_received))
    /\ udp_pc' = "sleep"
    /\ sent' = NoReply
    /\ UNCHANGED <<profileVars, calVars>>

\* no_branch that feeds the watchdog for every parsed packet
no_branch_feeds(p, lcd1, ug1) ==
    /\ lcd_state' = lcd1
    /\ ug_state' = ug1
    /\ last_seq' = get(p.seq, 0)
    /\ packets_received' = Bump(packets_received)
    /\ udp_pc' = "sleep"
    /\ sent' = NoReply
    /\ feed
    /\ UNCHANGED <<motorVars, wd_enabled, profileVars, calVars>>

\* udp_server: a parsed packet whose cmd matches no branch of the if/elif
\* chain (no cmd, an unknown cmd, "charging")
no_branch(p, lcd1, ug1) ==
    /\ lcd_state' = lcd1
    /\ ug_state' = ug1
    /\ last_seq' = get(p.seq, 0)
    /\ packets_received' = Bump(packets_received)
    /\ udp_pc' = "sleep"
    /\ sent' = NoReply
    /\ UNCHANGED <<motorVars, wdVars, profileVars, calVars>>

\* udp_server: one pass of the receive loop with datagram p ready on the socket
HandleDatagram(p) ==
    LET lcd1 == IF client_connected THEN lcd_state ELSE STATE_CLIENT_OK
        ug1 == IF client_connected THEN ug_state ELSE STATE_CLIENT_OK
    IN
    /\ client_connected' = TRUE
    /\ IF ~p.json THEN parse_error(p, lcd1, ug1)
       ELSE IF p.cmd \in ContinueCmds THEN continue_branch(p, lcd1, ug1)
       ELSE IF p.cmd = "drive" THEN drive_branch(p, lcd1, ug1)
       ELSE no_branch(p, lcd1, ug1)

(***************************************************************************)
(* The tasks of RobotController.run                                        *)
(***************************************************************************)
\* the receive task holds the processor (it has not reached its sleep_ms(1))
UdpBusy == udp_pc = "poll"

\* udp_server receives and handles datagram p
UdpReceiveP(p) ==
    /\ phase = "run"
    /\ HandleDatagram(p)
    /\ UNCHANGED <<initVars, now, e_stop_active, startup_complete, schedVars, tcp_open>>
    /\ UNCHANGED ctlVars

\* udp_server receives and handles a datagram
UdpReceive == \E p \in Datagrams : UdpReceiveP(p)

\* udp_server polls, finds the socket empty and sleeps
UdpPollEmpty ==
    /\ phase = "run"
    /\ udp_pc = "poll"
    /\ udp_pc' = "sleep"
    /\ sent' = NoReply
    /\ UNCHANGED <<initVars, now, motorVars, wdVars, e_stop_active, startup_complete,
                   indVars, client_connected, packets_received, schedVars, tcp_open>>
    /\ UNCHANGED <<profileVars, last_seq, calVars, ctlVars>>

\* a watchdog check that runs only while the main loop is in its own sleep
WatchdogTick_main_awake ==
    /\ phase = "run"
    /\ ~UdpBusy
    /\ main_pc = "sleep"
    /\ wd_sleep = 0
    /\ check_timeout
    /\ wd_sleep' = MONITOR_SLEEP_MS
    /\ UNCHANGED <<initVars, now, motor_enabled, wd_enabled, last_packet_time, e_stop_active,
                   startup_complete, udpVars, main_sleep, main_pc, tcp_open>>
    /\ UNCHANGED <<cfgVars, ctlVars>>

\* Watchdog.monitor_loop: one iteration
WatchdogTick ==
    /\ phase = "run"
    /\ ~UdpBusy
    /\ wd_sleep = 0
    /\ check_timeout
    /\ wd_sleep' = MONITOR_SLEEP_MS
    /\ UNCHANGED <<initVars, now, motor_enabled, wd_enabled, last_packet_time,
                   e_stop_active, startup_complete, udpVars, main_sleep, main_pc, tcp_open>>
    /\ UNCHANGED <<cfgVars, ctlVars>>

\* RobotController.run: one iteration of the main loop, up to its next await:
\* the sleep, or wifi_manager.reconnect() when Wi-Fi is down
MainLoopStep ==
    /\ phase = "run"
    /\ ~UdpBusy
    /\ main_pc = "sleep"
    /\ main_sleep = 0
    /\ check_safety
    /\ \E wifi_connected \in BOOLEAN :
          IF wifi_connected
          THEN /\ main_sleep' = MAIN_LOOP_MS
               /\ main_pc' = "sleep"
          ELSE /\ main_sleep' = main_sleep
               /\ main_pc' = "reconnect"
    /\ UNCHANGED <<initVars, now, motor_enabled, wd_enabled, last_packet_time,
                   e_stop_active, startup_complete, udpVars, wd_sleep, tcp_open>>
    /\ UNCHANGED <<cfgVars, ctlVars>>

\* wifi_manager.reconnect() returns to the main loop, which goes to its sleep
MainLoopResume ==
    /\ phase = "run"
    /\ ~UdpBusy
    /\ main_pc = "reconnect"
    /\ main_pc' = "sleep"
    /\ main_sleep' = MAIN_LOOP_MS
    /\ UNCHANGED <<initVars, now, motorVars, wdVars, e_stop_active, startup_complete,
                   indVars, udpVars, wd_sleep, tcp_open>>
    /\ UNCHANGED <<cfgVars, ctlVars>>

\* RobotController.shutdown that disables the motor controller without
\* stopping the wheels
shutdown_no_stop ==
    /\ motor_enabled' = FALSE
    /\ UNCHANGED <<left_speed, right_speed>>

\* RobotController.shutdown
shutdown ==
    /\ stop
    /\ motor_enabled' = FALSE

\* RobotController.run: an iteration of the main loop raises (KeyboardInterrupt
\* or an exception of the loop body, wifi_manager.reconnect() included);
\* shutdown runs and asyncio.run returns
MainLoopExit ==
    /\ phase = "run"
    /\ ~UdpBusy
    /\ \/ main_pc = "sleep" /\ main_sleep = 0
       \/ main_pc = "reconnect"
    /\ shutdown
    /\ phase' = "terminated"
    /\ UNCHANGED <<step, net_up, init_log, now, wdVars, e_stop_active, startup_complete,
                   indVars, udpVars, schedVars, tcp_open>>
    /\ UNCHANGED <<cfgVars, ctlVars>>

\* SafetyController.trigger_e_stop is called
TriggerEStop ==
    /\ phase = "run"
    /\ ~UdpBusy
    /\ ~e_stop_active
    /\ trigger_e_stop
    /\ UNCHANGED <<initVars, now, startup_complete, udpVars, schedVars, tcp_open>>
    /\ UNCHANGED <<cfgVars, ctlVars>>

\* SafetyController.clear_e_stop is called
ClearEStop ==
    /\ phase = "run"
    /\ ~UdpBusy
    /\ e_stop_active
    /\ clear_e_stop
    /\ UNCHANGED <<initVars, now, startup_complete, indVars, udpVars, schedVars, tcp_open>>
    /\ UNCHANGED <<cfgVars, ctlVars>>

\* the shortest sleep still running
NextWake == IF main_pc = "sleep" THEN Min(wd_sleep, main_sleep) ELSE wd_sleep

\* time passes while every task sleeps, up to the next wake-up that is due
Advance ==
    /\ phase = "run"
    /\ ~UdpBusy
    /\ now < MaxTime
    /\ NextWake > 0
    /\ LET d == Min(Min(TimeStep, NextWake), MaxTime - now)
       IN /\ now' = now + d
          /\ wd_sleep' = wd_sleep - d
          /\ main_sleep' = Max(main_sleep - d, 0)
    /\ UNCHANGED <<initVars, motorVars, wdVars, e_stop_active, startup_complete,
                   indVars, udpVars, main_pc, tcp_open>>
    /\ UNCHANGED <<cfgVars, ctlVars>>

\* udp_server, back at the loop top after a `continue`, finds further discover
\* datagrams (seq 0) on the socket and handles them back to back for TimeStep
\* ms: each ends in `continue`, so no other task runs
UdpBurst ==
    /\ phase = "run"
    /\ UdpBusy
    /\ now < MaxTime
    /\ LET d == Min(TimeStep, MaxTime - now)
       IN /\ now' = now + d
          /\ wd_sleep' = Max(wd_sleep - d, 0)
          /\ main_sleep' = Max(main_sleep - d, 0)
    /\ packets_received' = MaxCount
    /\ last_seq' = 0
    /\ sent' = NoReply
    /\ UNCHANGED <<initVars, motorVars, wdVars, e_stop_active, startup_complete,
                   indVars, client_connected, udp_pc, main_pc, tcp_open, profileVars, calVars>>
    /\ UNCHANGED ctlVars

Next ==
    \/ InitStep
    \/ InitFail
    \/ UdpReceive
    \/ UdpPollEmpty
    \/ WatchdogTick
    \/ MainLoopStep
    \/ MainLoopResume
    \/ MainLoopExit
    \/ Advance
    \/ UdpBurst

Spec == Init /\ [][Next]_vars

\* the runtime with calls of the safety controller's emergency stop
NextEStop ==
    \/ Next
    \/ TriggerEStop
    \/ ClearEStop

SpecEStop == Init /\ [][NextEStop]_vars

(***************************************************************************)
(* ws_server.py: handle_tcp_client, the legacy TCP path. Nothing in        *)
(* main.py starts it; SpecTcp adds a client served by it to the runtime.   *)
(***************************************************************************)
\* a client connects: handle_tcp_client up to its first readline
TcpConnect ==
    /\ phase = "run"
    /\ ~UdpBusy
    /\ ~tcp_open
    /\ tcp_open' = TRUE
    /\ lcd_state' = STATE_CLIENT_OK
    /\ UNCHANGED <<initVars, now, motorVars, wdVars, e_stop_active, startup_complete,
                   ug_state, udpVars, schedVars>>
    /\ UNCHANGED <<cfgVars, ctlVars>>

\* handle_tcp_client: one line p read from the stream
HandleLine(p) ==
    IF p.json /\ p.cmd = "drive"
    THEN process_drive_command(p, FALSE, 0, TCP_MAX_AGE_MS, lcd_state, ug_state)
    ELSE UNCHANGED <<motorVars, wdVars, indVars>>

\* handle_tcp_client reads and handles line p
TcpLineP(p) ==
    /\ phase = "run"
    /\ ~UdpBusy
    /\ tcp_open
    /\ HandleLine(p)
    /\ UNCHANGED <<initVars, now, e_stop_active, startup_complete, udpVars, schedVars,
                   tcp_open>>
    /\ UNCHANGED <<cfgVars, ctlVars>>

\* handle_tcp_client reads and handles a line
TcpLine == \E p \in Datagrams : TcpLineP(p)

\* the client disconnects: handle_tcp_client's finally block
TcpDisconnect ==
    /\ phase = "run"
    /\ ~UdpBusy
    /\ tcp_open
    /\ tcp_open' = FALSE
    /\ stop
    /\ lcd_state' = STATE_LINK_LOST
    /\ UNCHANGED <<initVars, now, motor_enabled, wdVars, e_stop_active, startup_complete,
                   ug_state, udpVars, schedVars>>
    /\ UNCHANGED <<cfgVars, ctlVars>>

NextTcp ==
    \/ Next
    \/ TcpConnect
    \/ TcpLine
    \/ TcpDisconnect

SpecTcp == Init /\ [][NextTcp]_vars

\* ts values of drive packets: negative, zero (also a packet without ts, as
\* packet.get("ts", 0) reads it), the robot's present time, and one too old
\* for either path
TsValues == {-1, 0, CurrentTime, CurrentTime - 600}

\* the drive packets offered on either path, of every ts value, straight
\* ahead at half throttle or turning at full throttle
TsPackets ==
    {[Packet0 EXCEPT !.cmd = "drive", !.ts = t, !.throttle = a[1], !.steer = a[2]] :
        t \in TsValues, a \in Axes \ {<<0, 0>>}}

\* udp_server receives and handles a drive datagram
TsReceive == \E p \in TsPackets : UdpReceiveP(p)

\* handle_tcp_client reads and handles a drive line
TsLine == \E p \in TsPackets : TcpLineP(p)

\* the robot with drive packets of every ts arriving on both paths
NextTs ==
    \/ InitStep
    \/ InitFail
    \/ TsReceive
    \/ TcpConnect
    \/ TsLine
    \/ TcpDisconnect
    \/ WatchdogTick
    \/ MainLoopStep
    \/ MainLoopResume
    \/ MainLoopExit
    \/ Advance

SpecTs == Init /\ [][NextTs]_vars

(***************************************************************************)
(* ws_server.py: udp_server against packets with every payload. SpecPkt is *)
(* the runtime at one reading of the clock (no sleep runs out): what a     *)
(* handler does depends on the time only through a drive packet's age,     *)
(* which the packets cover.                                                *)
(***************************************************************************)
\* calibration payloads of set_calibration packets: in range and out of range
CalPayloads ==
    {[steering_trim |-> 100, motor_left_scale |-> 900, motor_right_scale |-> 1000],
     [steering_trim |-> 900, motor_left_scale |-> 100, motor_right_scale |-> 1500]}

\* seq fields of the packets: missing, and values below, at and above earlier ones
Seqs == {<<>>, <<1>>, <<2>>}

\* the packets a client may send
Packets ==
    Datagrams
    \cup {[Packet0 EXCEPT !.cmd = "none"]}
    \cup {[Packet0 EXCEPT !.cmd = "discover", !.seq = <<>>, !.addr = "host2"]}
    \cup {[Packet0 EXCEPT !.cmd = "get_calibration", !.seq = <<1>>, !.addr = "host2"]}
    \cup {[Packet0 EXCEPT !.cmd = "drive", !.seq = q, !.ts = CurrentTime, !.throttle = a[1],
                          !.steer = a[2]] : q \in Seqs, a \in Axes}
    \cup {[Packet0 EXCEPT !.cmd = "set_profile", !.seq = <<1>>, !.addr = "host2", !.robot_id = i,
                          !.name = n, !.color = ROBOT_PROFILES[4].color, !.color_is_list = l] :
             i \in {<<>>, <<ROBOT_ID>>, <<4>>}, n \in {"", ROBOT_PROFILES[4].name},
             l \in BOOLEAN}
    \cup {[Packet0 EXCEPT !.cmd = "set_calibration", !.seq = q, !.calibration = <<c>>] :
             q \in {<<>>, <<1>>}, c \in CalPayloads}
    \cup {[Packet0 EXCEPT !.cmd = "charging", !.enable = e] : e \in BOOLEAN}

\* udp_server receives and handles a packet
PktReceive == \E p \in Packets : UdpReceiveP(p)

NextPkt ==
    \/ InitStep
    \/ InitFail
    \/ PktReceive
    \/ UdpPollEmpty
    \/ WatchdogTick
    \/ MainLoopStep
    \/ MainLoopResume
    \/ MainLoopExit

SpecPkt == Init /\ [][NextPkt]_vars

\* the packets offered while the clock runs: one of each kind udp_server
\* tells apart, the drive packet fresh and without seq
FramePackets ==
    {[Packet0 EXCEPT !.json = FALSE],
     [Packet0 EXCEPT !.cmd = "none"],
     [Packet0 EXCEPT !.cmd = "other"],
     [Packet0 EXCEPT !.cmd = "drive", !.seq = <<>>, !.ts = CurrentTime, !.throttle = 500],
     [Packet0 EXCEPT !.cmd = "discover"],
     [Packet0 EXCEPT !.cmd = "get_calibration"],
     [Packet0 EXCEPT !.cmd = "set_calibration",
                     !.calibration = <<[steering_trim |-> 100, motor_left_scale |-> 900,
                                        motor_right_scale |-> 1000]>>],
     [Packet0 EXCEPT !.cmd = "set_profile", !.robot_id = <<ROBOT_ID>>,
                     !.name = ROBOT_PROFILES[4].name, !.color = ROBOT_PROFILES[4].color],
     [Packet0 EXCEPT !.cmd = "set_profile", !.robot_id = <<4>>,
                     !.name = ROBOT_PROFILES[4].name, !.color = ROBOT_PROFILES[4].color]}

\* udp_server receives and handles one of them
FrameReceive == \E p \in FramePackets : UdpReceiveP(p)

NextFrame ==
    \/ InitStep
    \/ InitFail
    \/ FrameReceive
    \/ UdpPollEmpty
    \/ WatchdogTick
    \/ MainLoopStep
    \/ MainLoopResume
    \/ MainLoopExit
    \/ Advance

SpecFrame == Init /\ [][NextFrame]_vars

(***************************************************************************)
(* calibration.py: the CalibrationManager, its file /calibration.json and  *)
(* a power cycle. Values are thousandths; the keys robot_id and version of *)
(* the record are left out of it.                                          *)
(***************************************************************************)
DEFAULT_CALIBRATION ==
    [steering_trim |-> 0, motor_left_scale |-> ONE, motor_right_scale |-> ONE]

\* keys and values handed to CalibrationManager.set
SetKeys == DOMAIN DEFAULT_CALIBRATION \cup {"robot_id", "other"}
SetValues == {100, 900}

\* CalibrationManager.set on the record c: the record afterwards
CalibrationManager_set(c, key, value) ==
    IF key = "robot_id" THEN c
    ELSE IF key \in DOMAIN DEFAULT_CALIBRATION THEN [c EXCEPT ![key] = value]
    ELSE c

\* CalibrationManager.update: set for each key of updates
CalibrationManager_update(c, updates) ==
    [key \in DOMAIN c |->
        IF key \in DOMAIN updates
        THEN CalibrationManager_set(c, key, updates[key])[key]
        ELSE c[key]]

\* CalibrationManager.save of the record c
CalibrationManager_save(c) == cal_file' = [exists |-> TRUE, data |-> c]

\* CalibrationManager.load into a manager holding c: the file's values are
\* taken as they are; without a file the record held is saved
CalibrationManager_load(c) ==
    IF cal_file.exists
    THEN /\ calibration_manager' = [set |-> TRUE, calibration |-> cal_file.data]
         /\ UNCHANGED cal_file
    ELSE /\ calibration_manager' = [set |-> TRUE, calibration |-> c]
         /\ CalibrationManager_save(c)

\* everything but the calibration manager and its file
robotVars ==
    <<initVars, now, motorVars, wdVars, e_stop_active, startup_complete, indVars, udpVars,
      schedVars, tcp_open, profileVars, sent, last_seq, ctlVars>>

\* calibration.initialize: a new CalibrationManager, defaults then load
CalInitialize ==
    /\ CalibrationManager_load(DEFAULT_CALIBRATION)
    /\ UNCHANGED robotVars

CalLoad ==
    /\ calibration_manager.set
    /\ CalibrationManager_load(calibration_manager.calibration)
    /\ UNCHANGED robotVars

CalSet ==
    /\ calibration_manager.set
    /\ \E key \in SetKeys, value \in SetValues :
          calibration_manager' =
              [calibration_manager EXCEPT
                  !.calibration = CalibrationManager_set(@, key, value)]
    /\ UNCHANGED <<cal_file, robotVars>>

CalUpdate ==
    /\ calibration_manager.set
    /\ \E updates \in CalPayloads :
          calibration_manager' =
              [calibration_manager EXCEPT
                  !.calibration = CalibrationManager_update(@, updates)]
    /\ UNCHANGED <<cal_file, robotVars>>

CalSave ==
    /\ calibration_manager.set
    /\ CalibrationManager_save(calibration_manager.calibration)
    /\ UNCHANGED <<calibration_manager, robotVars>>

\* CalibrationManager.reset_to_defaults
CalReset ==
    /\ calibration_manager.set
    /\ calibration_manager' = [set |-> TRUE, calibration |-> DEFAULT_CALIBRATION]
    /\ CalibrationManager_save(DEFAULT_CALIBRATION)
    /\ UNCHANGED robotVars

\* power cycle: memory is as at construction, the file system is kept
Reboot ==
    /\ phase = "run"
    /\ phase' = "init"
    /\ step' = 1
    /\ net_up' = FALSE
    /\ init_log' = <<>>
    /\ now' = 0
    /\ motor_enabled' = FALSE
    /\ left_speed' = 0
    /\ right_speed' = 0
    /\ wd_enabled' = FALSE
    /\ timed_out' = FALSE
    /\ last_packet_time' = 0
    /\ e_stop_active' = FALSE
    /\ startup_complete' = FALSE
    /\ lcd_state' = NoState
    /\ ug_state' = NoState
    /\ client_connected' = FALSE
    /\ packets_received' = 0
    /\ udp_pc' = "sleep"
    /\ wd_sleep' = 0
    /\ main_sleep' = 0
    /\ main_pc' = "sleep"
    /\ tcp_open' = FALSE
    /\ ROBOT_NAME' = ROBOT_PROFILES[ROBOT_PROFILE].name
    /\ ROBOT_COLOR' = ROBOT_PROFILES[ROBOT_PROFILE].color
    /\ robot_color' = NoColor
    /\ sent' = NoReply
    /\ last_seq' = 0
    /\ calibration_manager' = NoManager
    /\ UNCHANGED <<cal_file, ctlVars>>

\* the packets that name the calibration or the profile
CalPackets == {p \in Packets : p.json /\ p.cmd \in ContinueCmds}

CalReceive == \E p \in CalPackets : UdpReceiveP(p)

NextCal ==
    \/ InitStep
    \/ InitFail
    \/ CalReceive
    \/ UdpPollEmpty
    \/ CalInitialize
    \/ CalLoad
    \/ CalSet
    \/ CalUpdate
    \/ CalSave
    \/ CalReset
    \/ Reboot

SpecCal == Init /\ [][NextCal]_vars

(***************************************************************************)
(* motor.py: DifferentialDrive.drive against drive packets over a grid of  *)
(* throttle and steer values, in range and out of range, with the          *)
(* calibration manager set up and updated in between.                      *)
(***************************************************************************)
\* throttle and steer values of the packets (thousandths)
MixAxes == {-1500, -1000, -500, -50, 0, 50, 500, 1000, 1500}

\* fresh drive packets over the grid
MixPackets ==
    {[Packet0 EXCEPT !.cmd = "drive", !.ts = CurrentTime, !.throttle = t, !.steer = s] :
        t \in MixAxes, s \in MixAxes}

MixReceive == \E p \in MixPackets : UdpReceiveP(p)

NextMix ==
    \/ InitStep
    \/ InitFail
    \/ MixReceive
    \/ CalInitialize
    \/ CalUpdate

SpecMix == Init /\ [][NextMix]_vars

(***************************************************************************)
(* controller_xbox.py: RobotConnection and ControllerApp. One asyncio      *)
(* event loop runs ControllerApp.run and the terminal command task; a     *)
(* blocking recvfrom inside a coroutine stops both. Time passes in steps   *)
(* of HostStep ms. At most one _send_profile_config call is in progress.   *)
(***************************************************************************)
\* ms that pass in one step of the host's clock
HostStep == 250
\* seq_num is counted up to this value; no packet is sent beyond it
MaxSeq == 3
\* since_drive is counted up to this value and then held
MaxSilence == 750
\* number of packets wire keeps
WireLen == 2

PROFILE_TIMEOUT_MS == 3000
PROFILE_TIMEOUT_STEP_MS == 1000
PROFILE_RETRY_SLEEP_MS == 500
PROFILE_ATTEMPTS == 3
CAL_TIMEOUT_MS == 500
TRIM_THRESHOLD == 50

\* (throttle, steer) pairs read from the controller
HostAxes == {<<0, 0>>, <<50, 300>>, <<51, 300>>, <<-500, 950>>}
\* steering_trim values a calibration can carry
Trims == {100}

\* wire after packet pkt has been sent
Put(pkt) ==
    LET w == Append(wire, pkt)
    IN IF Len(w) > WireLen THEN Tail(w) ELSE w

DrivePacket(throttle, steer) ==
    [cmd |-> "drive", seq |-> seq_num, throttle |-> throttle, steer |-> steer]

CalibrationRequest == [cmd |-> "get_calibration", seq |-> seq_num, throttle |-> 0, steer |-> 0]

ProfilePacket == [cmd |-> "set_profile", seq |-> 0, throttle |-> 0, steer |-> 0]

\* self.calibration.get("steering_trim", 0.0)
steering_trim ==
    IF "steering_trim" \in DOMAIN conn_calibration THEN conn_calibration.steering_trim ELSE 0

\* send_drive_command with the trim added whatever the throttle is
calibrated_steer_ungated(throttle, steer) == clamp(steer + steering_trim, -ONE, ONE)

\* send_drive_command with the trim added and the sum left as it is
calibrated_steer_unclamped(throttle, steer) ==
    IF Abs(throttle) > TRIM_THRESHOLD THEN steer + steering_trim ELSE steer

\* send_drive_command: the steer value put in the packet
calibrated_steer(throttle, steer) ==
    IF Abs(throttle) > TRIM_THRESHOLD
    THEN clamp(steer + steering_trim, -ONE, ONE)
    ELSE steer

\* calibrate.py, CalibrationTool._send_drive_command: the steer value put in
\* the packet when the tool holds steering trim trim
CalibrationTool_steer(throttle, steer, trim) ==
    clamp(IF Abs(throttle) > TRIM_THRESHOLD THEN steer + trim ELSE steer, -ONE, ONE)

\* send_drive_command returns True: connected, and sendto (ok) does not raise
SendSucceeds(ok) == connected /\ sock = "open" /\ ok

\* send_drive_command: its effect when it returns True
send_drive_command(throttle, steer) ==
    /\ wire' = Put(DrivePacket(throttle, calibrated_steer(throttle, steer)))
    /\ seq_num' = seq_num + 1
    /\ since_drive' = 0

\* what can happen inside connect: the socket cannot be created, sendto of
\* the calibration request raises, no reply within CAL_TIMEOUT_MS, a reply
\* without calibration, a reply with one
ConnectOutcomes == {"fail", "nosend", "timeout", "other", "calibration"}

\* RobotConnection.connect that starts seq_num again from 0
connect_reset_seq(outcome, trim) ==
    IF outcome = "fail"
    THEN /\ connected' = FALSE
         /\ UNCHANGED <<sock, seq_num, conn_calibration, since_drive, wire>>
    ELSE /\ connected' = TRUE
         /\ sock' = "open"
         /\ IF outcome = "nosend"
            THEN /\ seq_num' = 0
                 /\ UNCHANGED <<conn_calibration, since_drive, wire>>
            ELSE /\ wire' = Put([CalibrationRequest EXCEPT !.seq = 0])
                 /\ seq_num' = 1
                 /\ conn_calibration' =
                       IF outcome = "calibration" THEN [steering_trim |-> trim]
                       ELSE conn_calibration
                 /\ since_drive' =
                       IF outcome = "timeout" /\ app_pc = "loop"
                       THEN Min(since_drive + CAL_TIMEOUT_MS, MaxSilence)
                       ELSE since_drive

\* RobotConnection.connect with _request_calibration: a new socket, the
\* calibration request and the wait for its reply
connect(outcome, trim) ==
    IF outcome = "fail"
    THEN /\ connected' = FALSE
         /\ UNCHANGED <<sock, seq_num, conn_calibration, since_drive, wire>>
    ELSE /\ connected' = TRUE
         /\ sock' = "open"
         /\ IF outcome = "nosend"
            THEN UNCHANGED <<seq_num, conn_calibration, since_drive, wire>>
            ELSE /\ wire' = Put(CalibrationRequest)
                 /\ seq_num' = seq_num + 1
                 /\ conn_calibration' =
                       IF outcome = "calibration" THEN [steering_trim |-> trim]
                       ELSE conn_calibration
                 /\ since_drive' =
                       IF outcome = "timeout" /\ app_pc = "loop"
                       THEN Min(since_drive + CAL_TIMEOUT_MS, MaxSilence)
                       ELSE since_drive

\* the event loop is stopped inside a blocking recvfrom
Blocked == prof.by # "none" /\ prof.pc = "recv"

\* main: RobotConnection.set_calibration with the calibration of a discovery
\* reply, before run is started
HostSetCalibration ==
    /\ app_pc = "connect"
    /\ sock = "none"
    /\ \E trim \in Trims : conn_calibration' = [steering_trim |-> trim]
    /\ UNCHANGED <<app_pc, running, connected, sock, seq_num, prof, since_drive, wire>>
    /\ UNCHANGED <<fwVars, scanVars, unitVars>>

\* run: one pass of the connect loop
HostConnect ==
    /\ app_pc = "connect"
    /\ running
    /\ seq_num < MaxSeq
    /\ \E outcome \in ConnectOutcomes, trim \in Trims :
          /\ connect(outcome, trim)
          /\ app_pc' = IF outcome = "fail" THEN "connect" ELSE "loop"
    /\ UNCHANGED <<running, prof>>
    /\ UNCHANGED <<fwVars, scanVars, unitVars>>

\* run: one pass of the command loop at a tick, the controller reading
\* (throttle, steer): a drive packet, or a reconnect when the send fails
LoopTickP(throttle, steer) ==
    /\ app_pc = "loop"
    /\ running
    /\ ~Blocked
    /\ seq_num < MaxSeq
    /\ \E ok \in BOOLEAN :
          IF SendSucceeds(ok)
          THEN /\ send_drive_command(throttle, steer)
               /\ UNCHANGED <<connected, sock, conn_calibration>>
          ELSE \E outcome \in ConnectOutcomes, trim \in Trims : connect(outcome, trim)
    /\ UNCHANGED <<app_pc, running, prof>>
    /\ UNCHANGED <<fwVars, scanVars, unitVars>>

LoopTick == \E a \in HostAxes : LoopTickP(a[1], a[2])

\* _send_profile_config: the receive timeout of attempt number attempt
profile_timeout(attempt) == PROFILE_TIMEOUT_MS + attempt * PROFILE_TIMEOUT_STEP_MS

\* _send_profile_config: attempt number attempt (not the last one) sends
\* set_profile and waits for the reply in a blocking recvfrom; when the
\* socket or sendto raises (ok = FALSE) it sleeps before the next attempt
send_profile_config(by, attempt, ok) ==
    IF ok
    THEN /\ prof' = [by |-> by, pc |-> "recv", attempt |-> attempt,
                     left |-> profile_timeout(attempt)]
         /\ wire' = Put(ProfilePacket)
    ELSE /\ prof' = [by |-> by, pc |-> "sleep", attempt |-> attempt,
                     left |-> PROFILE_RETRY_SLEEP_MS]
         /\ UNCHANGED wire

\* run takes a profile change off profile_change_queue and awaits
\* _on_profile_selected
GuiProfileSelected ==
    /\ app_pc = "loop"
    /\ running
    /\ ~Blocked
    /\ prof = NoProfile
    /\ \E ok \in BOOLEAN : send_profile_config("gui", 0, ok)
    /\ app_pc' = "profile"
    /\ UNCHANGED <<running, connected, sock, seq_num, conn_calibration, since_drive>>
    /\ UNCHANGED <<fwVars, scanVars, unitVars>>

\* _handle_terminal_commands processes a profile command
TermProfile ==
    /\ app_pc = "loop"
    /\ running
    /\ ~Blocked
    /\ prof = NoProfile
    /\ \E ok \in BOOLEAN : send_profile_config("term", 0, ok)
    /\ UNCHANGED <<app_pc, running, connected, sock, seq_num, conn_calibration, since_drive>>
    /\ UNCHANGED <<fwVars, scanVars, unitVars>>

\* _send_profile_config returns to its caller
profile_done ==
    /\ prof' = NoProfile
    /\ app_pc' = IF prof.by = "gui" THEN "loop" ELSE app_pc

\* what recvfrom can hand to _send_profile_config: a profile_response, a
\* JSON object of another type, text that is no JSON, a JSON value that is no
\* object (response.get raises)
ProfReplyKinds == {"profile_response", "other_type", "not_json", "not_object"}

\* the last attempt of _send_profile_config is running
LastAttempt == prof.attempt = PROFILE_ATTEMPTS - 1

\* a datagram of kind kind arrives while recvfrom waits
ProfReplyP(kind) ==
    /\ Blocked
    /\ app_pc # "done"
    /\ IF kind = "not_object" /\ ~LastAttempt
       THEN /\ prof' = [prof EXCEPT !.pc = "sleep", !.left = PROFILE_RETRY_SLEEP_MS]
            /\ UNCHANGED app_pc
       ELSE profile_done
    /\ UNCHANGED <<running, connected, sock, seq_num, conn_calibration, since_drive, wire>>
    /\ UNCHANGED <<fwVars, scanVars, unitVars>>

ProfReply == \E kind \in ProfReplyKinds : ProfReplyP(kind)

\* recvfrom times out: sleep and retry, or give up after the last attempt
ProfTimeout ==
    /\ Blocked
    /\ app_pc # "done"
    /\ prof.left = 0
    /\ IF ~LastAttempt
       THEN /\ prof' = [prof EXCEPT !.pc = "sleep", !.left = PROFILE_RETRY_SLEEP_MS]
            /\ UNCHANGED app_pc
       ELSE profile_done
    /\ UNCHANGED <<running, connected, sock, seq_num, conn_calibration, since_drive, wire>>
    /\ UNCHANGED <<fwVars, scanVars, unitVars>>

\* the retry sleep is over: the next attempt
ProfRetry ==
    /\ prof.by # "none"
    /\ prof.pc = "sleep"
    /\ prof.left = 0
    /\ app_pc # "done"
    /\ \E ok \in BOOLEAN :
          IF ok \/ prof.attempt + 1 < PROFILE_ATTEMPTS - 1
          THEN /\ send_profile_config(prof.by, prof.attempt + 1, ok)
               /\ UNCHANGED app_pc
          ELSE /\ profile_done
               /\ UNCHANGED wire
    /\ UNCHANGED <<running, connected, sock, seq_num, conn_calibration, since_drive>>
    /\ UNCHANGED <<fwVars, scanVars, unitVars>>

\* RobotConnection.disconnect
disconnect ==
    /\ sock' = IF sock = "none" THEN "none" ELSE "closed"
    /\ connected' = FALSE

\* the ways out of the command loop
ExitPaths == {"window", "start", "quit", "interrupt"}

\* the command loop is left and shutdown runs up to its sleep: the zero
\* command, when connected, as far as sendto (ok) lets it out
Exit ==
    /\ \E path \in ExitPaths :
          \/ app_pc = "loop" /\ ~Blocked
          \/ app_pc = "profile" /\ prof.pc = "sleep" /\ path = "interrupt"
    /\ seq_num < MaxSeq
    /\ running' = FALSE
    /\ prof' = IF app_pc = "profile" THEN NoProfile ELSE prof
    /\ IF connected
       THEN /\ app_pc' = "shutdown"
            /\ \E ok \in BOOLEAN :
                  IF SendSucceeds(ok)
                  THEN send_drive_command(0, 0)
                  ELSE UNCHANGED <<seq_num, since_drive, wire>>
            /\ UNCHANGED <<connected, sock>>
       ELSE /\ app_pc' = "done"
            /\ disconnect
            /\ UNCHANGED <<seq_num, since_drive, wire>>
    /\ UNCHANGED conn_calibration
    /\ UNCHANGED <<fwVars, scanVars, unitVars>>

\* shutdown after its sleep: disconnect; run returns and the terminal task
\* is cancelled
ShutdownFinish ==
    /\ app_pc = "shutdown"
    /\ ~Blocked
    /\ disconnect
    /\ app_pc' = "done"
    /\ prof' = NoProfile
    /\ UNCHANGED <<running, seq_num, conn_calibration, since_drive, wire>>
    /\ UNCHANGED <<fwVars, scanVars, unitVars>>

\* the command loop owes this period's drive packet
TickDue == app_pc = "loop" /\ ~Blocked /\ running /\ connected /\ since_drive > 0

\* HostStep ms pass
HostAdvance ==
    /\ app_pc \in {"loop", "profile", "shutdown"}
    /\ ~TickDue
    /\ prof.by # "none" => prof.left > 0
    /\ since_drive' = IF connected /\ running
                      THEN Min(since_drive + HostStep, MaxSilence)
                      ELSE since_drive
    /\ prof' = IF prof.by # "none"
               THEN [prof EXCEPT !.left = Max(@ - HostStep, 0)]
               ELSE prof
    /\ UNCHANGED <<app_pc, running, connected, sock, seq_num, conn_calibration, wire>>
    /\ UNCHANGED <<fwVars, scanVars, unitVars>>

NextHost ==
    \/ HostSetCalibration
    \/ HostConnect
    \/ LoopTick
    \/ GuiProfileSelected
    \/ TermProfile
    \/ ProfReply
    \/ ProfTimeout
    \/ ProfRetry
    \/ Exit
    \/ ShutdownFinish
    \/ HostAdvance

SpecHost == Init /\ [][NextHost]_vars

(***************************************************************************)
(* controller_xbox.py: discover_robots_on_network, the collection loop.    *)
(* One step is one datagram received within the scan window.               *)
(***************************************************************************)
\* datagrams received within one scan window
MaxReplies == 4

ScanIps == {"10.0.0.5", "10.0.0.6"}

\* a datagram: its source IP and what json.loads makes of it: not JSON, a
\* JSON value that is no object, an object of another type, a robot_info
ScanReplies ==
    [ip : ScanIps, kind : {"invalid", "not_object", "other"}, robot_id : {0}]
    \cup [ip : ScanIps, kind : {"robot_info"}, robot_id : {1, 2}]

\* the entry built from a robot_info reply
robot_info(r) == [robot_id |-> r.robot_id, ip |-> r.ip]

\* one pass of the collection loop with datagram r received
ScanReceive(r) ==
    /\ scan_pc = "scan"
    /\ replies < MaxReplies
    /\ replies' = replies + 1
    /\ IF r.kind = "invalid" \/ r.ip \in seen_ips
       THEN UNCHANGED <<seen_ips, robots>>
       ELSE /\ seen_ips' = seen_ips \cup {r.ip}
            /\ robots' = IF r.kind = "robot_info"
                         THEN Append(robots, robot_info(r))
                         ELSE robots
    /\ UNCHANGED scan_pc
    /\ UNCHANGED <<fwVars, hostVars, unitVars>>

\* the scan window is over: the list is returned
ScanDone ==
    /\ scan_pc = "scan"
    /\ scan_pc' = "done"
    /\ UNCHANGED <<seen_ips, robots, replies>>
    /\ UNCHANGED <<fwVars, hostVars, unitVars>>

NextDiscover == (\E r \in ScanReplies : ScanReceive(r)) \/ ScanDone

SpecDiscover == Init /\ [][NextDiscover]_vars

(***************************************************************************)
(* controller_xbox.py: input shaping. Axis values are ten-thousandths      *)
(* (SHAPE_ONE is 1.0); a drive packet carries them rounded to thousandths. *)
(***************************************************************************)
SHAPE_ONE == 10000
DEAD_ZONE == 800
THROTTLE_DEAD_ZONE == 500
TRIGGER_DEAD_ZONE == 1000
EXPO_EPS == 10
\* exponents in tenths
THROTTLE_EXPO == 20
STEERING_EXPO == 15
THROTTLE_SENSITIVITY == 10000
STEERING_SENSITIVITY == 4000
\* KeyboardController.__init__
THROTTLE_STEP == 1500
STEER_STEP == 2000
THROTTLE_DECAY == 8500
STEER_DECAY == 8000
BRAKE_FACTOR == 3000
KEY_EPS == 100

\* get_axes calls made on the keyboard controller
MaxFrames == 7

Sign(x) == IF x > 0 THEN 1 ELSE -1

\* a * b for ten-thousandths, rounded toward zero
MulS(a, b) == Sign(a) * Sign(b) * ((Abs(a) * Abs(b)) \div SHAPE_ONE)

RECURSIVE SqrtSearch(_, _, _)
\* the largest r in lo..hi with r * r <= n
SqrtSearch(n, lo, hi) ==
    IF lo >= hi THEN lo
    ELSE LET mid == (lo + hi + 1) \div 2
         IN IF mid * mid <= n THEN SqrtSearch(n, mid, hi) ELSE SqrtSearch(n, lo, mid - 1)

\* pow(magnitude, expo) for magnitude in 0..SHAPE_ONE
Pow(magnitude, expo) ==
    CASE expo = 10 -> magnitude
      [] expo = 20 -> (magnitude * magnitude) \div SHAPE_ONE
      [] expo = 15 -> (magnitude * SqrtSearch(magnitude * SHAPE_ONE, 0, SHAPE_ONE)) \div SHAPE_ONE

\* apply_deadzone
apply_deadzone(value, threshold) ==
    IF Abs(value) < threshold THEN 0
    ELSE Sign(value) * (((Abs(value) - threshold) * SHAPE_ONE) \div (SHAPE_ONE - threshold))

\* apply_expo
apply_expo(value, expo) ==
    IF Abs(value) < EXPO_EPS THEN 0
    ELSE Sign(value) * Pow(Abs(value), expo)

\* XboxController.get_axes, _process_trigger
process_trigger(raw_axis) ==
    LET normalized == (raw_axis + SHAPE_ONE) \div 2
    IN IF normalized < TRIGGER_DEAD_ZONE THEN 0
       ELSE ((normalized - TRIGGER_DEAD_ZONE) * SHAPE_ONE) \div (SHAPE_ONE - TRIGGER_DEAD_ZONE)

\* XboxController.get_axes: throttle_raw from the two trigger axes
throttle_raw(right_trigger, left_trigger) ==
    process_trigger(right_trigger) - process_trigger(left_trigger)

\* XboxController.get_axes: the (throttle, steer) pair it returns for the
\* right trigger, left trigger and left stick X axes in raw
Xbox_get_axes(raw) ==
    LET throttle == MulS(apply_expo(apply_deadzone(throttle_raw(raw[1], raw[2]),
                                                   THROTTLE_DEAD_ZONE), THROTTLE_EXPO),
                         THROTTLE_SENSITIVITY)
        steer == MulS(apply_expo(apply_deadzone(raw[3], DEAD_ZONE), STEERING_EXPO),
                      STEERING_SENSITIVITY)
    IN <<clamp(throttle, -SHAPE_ONE, SHAPE_ONE), clamp(steer, -SHAPE_ONE, SHAPE_ONE)>>

\* round(value, 3): ten-thousandths to the thousandths a packet carries
Round3(value) == Sign(value) * ((Abs(value) + 5) \div 10)

\* raw trigger axis values: released, a light pull, fully pressed
TriggerRaw == {-10000, -6578, 10000}

\* raw left stick X values
StickRaw == {-10000, -799, 0, 800, 10000}

XboxRaw == TriggerRaw \X {-10000, 10000} \X StickRaw

\* the keys held during one get_axes call: W, S, SPACE or none with D, A or
\* none
Keys == {<<"W", "D">>, <<"S", "A">>, <<"SPACE", "none">>, <<"none", "none">>}

\* the decay of an axis value toward zero when no key is held
Decay(value, factor) ==
    LET v == MulS(value, factor) IN IF Abs(v) < KEY_EPS THEN 0 ELSE v

\* KeyboardController.get_axes with keys held, the steering trim left at its
\* default 0
Keyboard_get_axes(k, keys) ==
    LET t == CASE keys[1] = "W" -> Min(SHAPE_ONE, k.throttle + THROTTLE_STEP)
               [] keys[1] = "S" -> Max(-SHAPE_ONE, k.throttle - THROTTLE_STEP)
               [] keys[1] = "SPACE" -> MulS(k.throttle, BRAKE_FACTOR)
               [] OTHER -> Decay(k.throttle, THROTTLE_DECAY)
        st == CASE keys[2] = "D" -> Min(SHAPE_ONE, k.steer + STEER_STEP)
                [] keys[2] = "A" -> Max(-SHAPE_ONE, k.steer - STEER_STEP)
                [] OTHER -> Decay(k.steer, STEER_DECAY)
    IN [used |-> k.used, throttle |-> t, steer |-> st,
        out |-> <<clamp(t, -SHAPE_ONE, SHAPE_ONE), clamp(st, -SHAPE_ONE, SHAPE_ONE)>>,
        frames |-> k.frames + 1]

\* steering_trim values a discovery reply can carry: the robot's values are
\* taken as they come
WideTrims == {-5000, 100, 5000}

\* main: RobotConnection.set_calibration with whatever calibration the
\* discovery reply carried
InputSetCalibration ==
    /\ app_pc = "connect"
    /\ sock = "none"
    /\ \E trim \in WideTrims : conn_calibration' = [steering_trim |-> trim]
    /\ UNCHANGED <<app_pc, running, connected, sock, seq_num, prof, since_drive, wire>>
    /\ UNCHANGED <<fwVars, scanVars, unitVars>>

\* ControllerApp.__init__: no joystick is found, the keyboard is used
UseKeyboard ==
    /\ app_pc = "connect"
    /\ sock = "none"
    /\ ~kbd.used
    /\ kbd' = [kbd EXCEPT !.used = TRUE]
    /\ UNCHANGED <<fwVars, hostVars, scanVars, left_motor>>

\* run: a tick of the command loop with an Xbox controller whose axes read raw
XboxTickP(raw) ==
    /\ ~kbd.used
    /\ LoopTickP(Round3(Xbox_get_axes(raw)[1]), Round3(Xbox_get_axes(raw)[2]))

XboxTick == \E raw \in XboxRaw : XboxTickP(raw)

\* KeyboardController.get_axes is called with keys held
KeyboardGetAxes ==
    /\ kbd.used
    /\ app_pc = "loop"
    /\ running
    /\ kbd.frames < MaxFrames
    /\ \E keys \in Keys : kbd' = Keyboard_get_axes(kbd, keys)
    /\ UNCHANGED <<fwVars, hostVars, scanVars, left_motor>>

NextInput ==
    \/ InputSetCalibration
    \/ UseKeyboard
    \/ HostConnect
    \/ XboxTick
    \/ KeyboardGetAxes

SpecInput == Init /\ [][NextInput]_vars

(***************************************************************************)
(* motor.py: one Motor object, driven call by call. A step is one whole    *)
(* call of set_speed or stop.                                              *)
(***************************************************************************)
\* speeds in thousandths are drawn from -MaxFine..MaxFine and MotorCoarse
MaxFine == 12

MotorCoarse == {-1500, -1000, -500, 500, 1000, 1500}

MotorSpeeds == (-MaxFine..MaxFine) \cup MotorCoarse

\* left_motor.set_speed(speed)
MotorSetSpeedP(speed) ==
    /\ left_motor' = [m |-> Motor_set_speed(left_motor.m, speed), prev |-> left_motor.m,
                      call |-> "set_speed", arg |-> speed]
    /\ UNCHANGED <<fwVars, hostVars, scanVars, kbd>>

MotorSetSpeed == \E speed \in MotorSpeeds : MotorSetSpeedP(speed)

\* left_motor.stop()
MotorStop ==
    /\ left_motor' = [m |-> Motor_stop(left_motor.m), prev |-> left_motor.m,
                      call |-> "stop", arg |-> 0]
    /\ UNCHANGED <<fwVars, hostVars, scanVars, kbd>>

NextMotor == MotorSetSpeed \/ MotorStop

SpecMotor == Init /\ [][NextMotor]_vars

(***************************************************************************)
(* Properties                                                              *)
(***************************************************************************)
\* ms since the watchdog was last fed
Elapsed == time_diff_ms(last_packet_time, now)

Stopped == left_speed = 0 /\ right_speed = 0

\* p is a drive packet the UDP path accepts
FreshDrive(p) == p.json /\ p.cmd = "drive" /\ ~Stale(p, UDP_MAX_AGE_MS)

\* p is a datagram the UDP path drops: not JSON, or a stale drive
Dropped(p) == ~p.json \/ (p.cmd = "drive" /\ Stale(p, UDP_MAX_AGE_MS))

\* C1: when the watchdog is armed and more than timeout_ms has passed since
\* the last accepted drive, the next run of check_timeout (watchdog task or
\* main loop) leaves timed_out set and both motors stopped; stale and
\* malformed datagrams arriving meanwhile neither feed the watchdog nor keep
\* the receive task from yielding.
C1_WatchdogFires ==
    [][ /\ ((WatchdogTick \/ (MainLoopStep /\ ~e_stop_active))
              /\ wd_enabled /\ Elapsed > WATCHDOG_TIMEOUT_MS)
            => (timed_out' /\ left_speed' = 0 /\ right_speed' = 0)
        /\ \A p \in Datagrams :
              (Dropped(p) /\ UdpReceiveP(p))
              => (last_packet_time' = last_packet_time /\ timed_out' = timed_out
                  /\ udp_pc' = "sleep")
      ]_vars

\* a watchdog trip after a drive had been accepted and a datagram was dropped
C1_Witness ==
    /\ timed_out
    /\ Stopped
    /\ motor_enabled
    /\ packets_received >= 2
    /\ lcd_state = STATE_LINK_LOST

\* C2: as long as the watchdog is armed and has not fired, no more than
\* timeout_ms plus one watchdog period has passed since it was last fed,
\* whatever datagrams arrive (the watchdog task is never starved).
C2_WatchdogNotStarved ==
    (phase = "run" /\ wd_enabled /\ ~timed_out)
        => Elapsed <= WATCHDOG_TIMEOUT_MS + MONITOR_SLEEP_MS

\* C3: timed_out implies that both wheel commands are zero.
C3_TimedOutImpliesStopped == timed_out => Stopped

\* the watchdog has fired after the robot was driving
C3_Witness ==
    /\ timed_out
    /\ motor_enabled
    /\ client_connected
    /\ ug_state = STATE_LINK_LOST

\* the motor state, the watchdog timer and its timed_out flag
DriveEffectVars == <<motor_enabled, left_speed, right_speed, last_packet_time, timed_out>>

C5_DrivingImpliesArmed == ~Stopped => wd_enabled

\* C6: while the emergency stop is active the motors are stopped and disabled.
C6_EStopLatched == e_stop_active => (Stopped /\ ~motor_enabled)


\* C7 (as amended): the watchdog trips only when more than timeout_ms has
\* passed since it was last fed, the trip stops the motors and publishes
\* LINK_LOST, and every check that runs after that point trips; with checks
\* 50 ms apart the trip comes up to timeout_ms + 50 after the packet, and
\* later only while the watchdog task is still due to run.
C7_TripAfterTimeout ==
    /\ [][ /\ (~timed_out /\ timed_out')
                => (wd_enabled /\ Elapsed > WATCHDOG_TIMEOUT_MS /\ Stopped'
                    /\ lcd_state' = STATE_LINK_LOST /\ ug_state' = STATE_LINK_LOST)
           /\ (WatchdogTick /\ wd_enabled /\ Elapsed > WATCHDOG_TIMEOUT_MS) => timed_out'
         ]_vars
    /\ []((phase = "run" /\ wd_enabled /\ ~timed_out /\ ~UdpBusy
             /\ Elapsed > WATCHDOG_TIMEOUT_MS + MONITOR_SLEEP_MS)
           => wd_sleep = 0)

\* C7 (as claimed): a trip that follows an accepted drive packet comes
\* between 500 and 533 ms (one 30 Hz packet period) after it.
C7_TripWithin533 ==
    [][ (~timed_out /\ timed_out' /\ lcd_state = STATE_DRIVING)
          => /\ Elapsed >= WATCHDOG_TIMEOUT_MS
             /\ Elapsed <= WATCHDOG_TIMEOUT_MS + 1000 \div CONTROL_RATE_HZ
             /\ Stopped'
             /\ lcd_state' = STATE_LINK_LOST
      ]_vars

\* the watchdog has tripped a full period after the timeout, after a drive
\* packet had been accepted
C7_Witness ==
    /\ timed_out
    /\ Stopped
    /\ lcd_state = STATE_LINK_LOST
    /\ packets_received >= 2
    /\ Elapsed = WATCHDOG_TIMEOUT_MS + MONITOR_SLEEP_MS
    /\ wd_sleep = MONITOR_SLEEP_MS

\* C8: a watchdog timeout leaves the program running, and a fresh drive
\* packet handled while timed_out clears timed_out, publishes DRIVING to LCD
\* and underglow and applies its (throttle, steer) to the enabled motors.
C8_LinkLostRecoverable ==
    [][ /\ \A p \in Datagrams :
              (timed_out /\ FreshDrive(p) /\ UdpReceiveP(p))
              => /\ ~timed_out'
                 /\ last_packet_time' = now
                 /\ lcd_state' = STATE_DRIVING
                 /\ ug_state' = STATE_DRIVING
                 /\ motor_enabled'
                 /\ left_speed' = set_speed(mix(p.throttle, p.steer)[1])
                 /\ right_speed' = set_speed(mix(p.throttle, p.steer)[2])
        /\ (~timed_out /\ timed_out') => (phase' = "run" /\ ENABLED UdpReceive)
      ]_vars

\* the link is lost and a fresh drive packet that starts the motors is about
\* to be handled
C8_Witness ==
    /\ timed_out
    /\ lcd_state = STATE_LINK_LOST
    /\ \E p \in Datagrams :
          /\ FreshDrive(p)
          /\ p.throttle # 0
          /\ ENABLED UdpReceiveP(p)

\* C9: the LCD leaves LINK_LOST only when a fresh drive packet is handled.
C9_LinkLostUntilDrive ==
    [][ (lcd_state = STATE_LINK_LOST /\ lcd_state' # STATE_LINK_LOST)
          => \E p \in Datagrams : FreshDrive(p) /\ UdpReceiveP(p)
      ]_vars

\* the five startup steps the claim orders
StartupOrder == <<"motor_init", "watchdog_init", "net_up", "motor_enable", "watchdog_arm">>

IsPrefix(a, b) == Len(a) <= Len(b) /\ \A i \in 1..Len(a) : a[i] = b[i]

\* C10: initialize performs motor init, watchdog init, network bring-up,
\* motor enable and watchdog arm in this order; motor init leaves the motors
\* disabled and stopped and watchdog init the watchdog disarmed; the motors
\* are enabled only once the network is up and the watchdog is armed only
\* once the motors have been enabled.
C10_StartupOrder ==
    LET done == SelectSeq(init_log, LAMBDA x : x \in {StartupOrder[i] : i \in 1..Len(StartupOrder)})
    IN /\ IsPrefix(done, StartupOrder)
       /\ Len(done) < 4 => (~motor_enabled /\ Stopped)
       /\ Len(done) < 5 => ~wd_enabled
       /\ motor_enabled => (net_up /\ lcd_state # STATE_BOOT /\ lcd_state # NoState)
       /\ wd_enabled => (startup_complete /\ Len(done) = 5)
       /\ phase = "run" => done = StartupOrder

\* startup has completed: motors enabled and stopped, watchdog armed and fed
C10_Witness ==
    /\ phase = "run"
    /\ motor_enabled
    /\ Stopped
    /\ wd_enabled
    /\ last_packet_time = now
    /\ lcd_state = STATE_NET_UP

\* what a dropped packet must leave alone: motor output, the watchdog's
\* fed-time and flag, calibration and profile
DroppedFrameVars ==
    <<left_speed, right_speed, motor_enabled, last_packet_time, timed_out, calVars, profileVars>>

C12_ArrivalOrder ==
    [][ /\ \A p \in Packets :
              (FreshDrive(p) /\ UdpReceiveP(p))
              => /\ left_speed' = set_speed(mix(p.throttle, p.steer)[1])
                 /\ right_speed' = set_speed(mix(p.throttle, p.steer)[2])
                 /\ last_seq' = get(p.seq, 0)
        /\ (<<left_speed, right_speed>>' # <<left_speed, right_speed>> /\ ~Stopped')
              => \E p \in Packets : FreshDrive(p) /\ UdpReceiveP(p)
      ]_vars

\* the robot drives at half throttle, the last seq seen is 2, and a fresh
\* full-throttle drive with seq 1 is about to be handled
C12_Witness ==
    /\ last_seq = 2
    /\ left_speed = 500
    /\ \E p \in Packets :
          /\ FreshDrive(p)
          /\ p.seq = <<1>>
          /\ p.throttle = 1000
          /\ ENABLED UdpReceiveP(p)

\* C13: handling a discover, get_calibration, set_calibration or set_profile
\* packet leaves wheel commands, motor enable, watchdog fed-time and timed_out
\* unchanged.
C13_NonDriveNoMotion ==
    [][ \A p \in FramePackets :
          (p.json /\ p.cmd \in ContinueCmds /\ UdpReceiveP(p))
          => UNCHANGED <<left_speed, right_speed, motor_enabled, last_packet_time, timed_out>>
      ]_vars

\* a set_profile was the last packet handled, the robot is driving and the
\* watchdog was last fed some time ago
C13_Witness ==
    /\ ~Stopped
    /\ Elapsed > 0
    /\ motor_enabled
    /\ sent.type = "profile_response"
    /\ sent.success
    /\ ROBOT_NAME = ROBOT_PROFILES[4].name

\* C14: a step of udp_server sends a robot_info, addressed to the sender, if
\* and only if the datagram it handled is a discover.
C14_RobotInfoIffDiscover ==
    [][ \A p \in Packets :
          UdpReceiveP(p)
          => ((sent'.type = "robot_info" /\ sent'.to = p.addr) <=> (p.json /\ p.cmd = "discover"))
      ]_vars

\* the ranges the calibration record is said to be held in (thousandths)
InRange(c) ==
    /\ c.steering_trim \in -200..200
    /\ c.motor_left_scale \in 500..1000
    /\ c.motor_right_scale \in 500..1000

\* c with each field clamped into its range
Clamped(c) ==
    [steering_trim |-> Max(-200, Min(200, c.steering_trim)),
     motor_left_scale |-> Max(500, Min(1000, c.motor_left_scale)),
     motor_right_scale |-> Max(500, Min(1000, c.motor_right_scale))]

\* C15: handling set_calibration(c) leaves the record holding clamp(c), and
\* handling get_calibration sends the sender a calibration_response that
\* carries the record held.
C15_SetThenGet ==
    [][ \A p \in Packets :
          /\ (p.json /\ p.cmd = "set_calibration" /\ p.calibration # <<>> /\ UdpReceiveP(p))
             => /\ calibration_manager'.set
                /\ calibration_manager'.calibration = Clamped(p.calibration[1])
          /\ (p.json /\ p.cmd = "get_calibration" /\ UdpReceiveP(p))
             => /\ sent'.type = "calibration_response"
                /\ sent'.to = p.addr
                /\ calibration_manager.set
                /\ sent'.calibration = calibration_manager.calibration
      ]_vars

\* C16: whatever loads and sets have happened, the record held and the record
\* on file have the trim in [-0.2, 0.2] and both scales in [0.5, 1.0].
C16_RecordInRange ==
    /\ calibration_manager.set => InRange(calibration_manager.calibration)
    /\ cal_file.exists => InRange(cal_file.data)

\* C17: after every step the record held is the record on file, so that a
\* power cycle loses nothing, and handling a packet other than
\* set_calibration changes neither.
C17_SurvivesReboot ==
    [][ /\ calibration_manager'.set
           => (cal_file'.exists /\ cal_file'.data = calibration_manager'.calibration)
        /\ \A p \in CalPackets :
              (p.cmd # "set_calibration" /\ UdpReceiveP(p)) => UNCHANGED calVars
      ]_vars

\* p is a set_profile the robot accepts: its own id, a name, a colour list
OwnProfile(p) ==
    /\ p.json
    /\ p.cmd = "set_profile"
    /\ p.robot_id = <<ROBOT_ID>>
    /\ p.name # ""
    /\ p.color_is_list

\* C18: an accepted set_profile stores its name and colour, and the robot_info
\* sent for a discover carries the name and colour stored.
C18_ProfileInRobotInfo ==
    [][ \A p \in Packets :
          /\ (OwnProfile(p) /\ UdpReceiveP(p))
             => (ROBOT_NAME' = p.name /\ ROBOT_COLOR' = p.color)
          /\ (p.json /\ p.cmd = "discover" /\ UdpReceiveP(p))
             => /\ sent'.type = "robot_info"
                /\ sent'.name = ROBOT_NAME
                /\ sent'.color = ROBOT_COLOR
      ]_vars

\* C19: a set_profile answered with success false leaves the name, the colour
\* and the LED colour as they were.
C19_FailedProfileNoChange ==
    [][ \A p \in Packets :
          (/\ p.json
           /\ p.cmd = "set_profile"
           /\ UdpReceiveP(p)
           /\ sent'.type = "profile_response"
           /\ ~sent'.success)
          => UNCHANGED profileVars
      ]_vars

\* C20: handling a charging packet with enable true leaves the motors stopped
\* and disabled, and while the robot is so held no drive packet moves it.
C20_ChargingStopsMotors ==
    [][ \A p \in Packets :
          (p.json /\ p.cmd = "charging" /\ p.enable /\ UdpReceiveP(p))
          => (Stopped' /\ ~motor_enabled')
      ]_vars

\* C25: for every throttle and steer of the grid, in [-1, 1] or outside it,
\* the pair drive hands to the motors lies in [-1, 1] x [-1, 1], and the
\* wheel speeds are that pair.
C25_MixerRange ==
    [][ \A p \in MixPackets :
          UdpReceiveP(p)
          => /\ mix(p.throttle, p.steer)[1] \in -ONE..ONE
             /\ mix(p.throttle, p.steer)[2] \in -ONE..ONE
             /\ left_speed' = set_speed(mix(p.throttle, p.steer)[1])
             /\ right_speed' = set_speed(mix(p.throttle, p.steer)[2])
      ]_vars

\* an out-of-range packet has been driven: full left, right wheel scaled down
C25_Witness ==
    /\ lcd_state = STATE_DRIVING
    /\ \E p \in MixPackets :
          /\ p.throttle > ONE
          /\ p.steer > ONE
          /\ left_speed = mix(p.throttle, p.steer)[1]
          /\ right_speed = mix(p.throttle, p.steer)[2]
          /\ left_speed = ONE
          /\ right_speed > 0

\* C26: when the raw mix (l, r) has m = max(|l|, |r|) > 1, the pair (l', r')
\* handed to the motors has max(|l'|, |r'|) = 1 and l' * r = l * r' to the
\* last digit the speeds are held in (one thousandth, so the products differ
\* by less than m).
C26_CurvaturePreserved ==
    [][ \A p \in MixPackets :
          LET raw == mix_raw(p.throttle, p.steer)
              out == mix(p.throttle, p.steer)
              m == Max(Abs(raw[1]), Abs(raw[2]))
          IN (m > ONE /\ UdpReceiveP(p))
             => /\ Max(Abs(out[1]), Abs(out[2])) = ONE
                /\ Abs(out[1] * raw[2] - raw[1] * out[2]) < m
                /\ left_speed' = set_speed(out[1])
                /\ right_speed' = set_speed(out[2])
      ]_vars

\* a packet whose raw mix exceeds 1 on the left wheel only has been driven
C26_Witness ==
    /\ lcd_state = STATE_DRIVING
    /\ \E p \in MixPackets :
          /\ mix_raw(p.throttle, p.steer)[1] > ONE
          /\ mix_raw(p.throttle, p.steer)[2] \in 1..(ONE - 1)
          /\ left_speed = ONE
          /\ right_speed = mix(p.throttle, p.steer)[2]
          /\ right_speed < mix_raw(p.throttle, p.steer)[2]

\* C27: with a calibration record held, a fresh drive sets each wheel to its
\* normalised mix multiplied by the record's scale for that wheel.
C27_CalibrationApplied ==
    [][ \A p \in MixPackets :
          (calibration_manager.set /\ UdpReceiveP(p))
          => /\ left_speed' =
                  set_speed(DivT(mix(p.throttle, p.steer)[1]
                                 * calibration_manager.calibration.motor_left_scale, ONE))
             /\ right_speed' =
                  set_speed(DivT(mix(p.throttle, p.steer)[2]
                                 * calibration_manager.calibration.motor_right_scale, ONE))
      ]_vars

\* C28: a fresh drive with throttle 1.0 and steer 1.0 leaves the left wheel at
\* 1.0 and the right wheel at 0.
C28_HardRight ==
    [][ \A p \in MixPackets :
          (p.throttle = ONE /\ p.steer = ONE /\ UdpReceiveP(p))
          => (left_speed' = ONE /\ right_speed' = 0)
      ]_vars

\* the state changes the indicators may show. NET_UP to DRIVING is the first
\* datagram being a fresh drive: udp_server publishes CLIENT_OK and then
\* DRIVING within one pass
StateTransitions ==
    {<<NoState, STATE_BOOT>>, <<STATE_BOOT, STATE_NET_UP>>, <<STATE_NET_UP, STATE_CLIENT_OK>>,
     <<STATE_CLIENT_OK, STATE_DRIVING>>, <<STATE_NET_UP, STATE_DRIVING>>,
     <<STATE_DRIVING, STATE_LINK_LOST>>, <<STATE_LINK_LOST, STATE_DRIVING>>}

\* C30: every change of the state shown on the LCD or the underglow is one of
\* BOOT -> NET_UP -> CLIENT_OK -> DRIVING <-> LINK_LOST: LINK_LOST is entered
\* only from DRIVING and CLIENT_OK never follows DRIVING or LINK_LOST.
C30_StateSequence ==
    [][ /\ lcd_state' # lcd_state => <<lcd_state, lcd_state'>> \in StateTransitions
        /\ ug_state' # ug_state => <<ug_state, ug_state'>> \in StateTransitions
      ]_vars

\* C21: a profile change in progress never holds up the drive packets: while
\* the controller is connected and running, time passes only once this
\* period's drive packet has been sent, also while a set_profile waits for a
\* profile_response.
C21_ProfileNeverBlocksDrive ==
    [][ ( /\ connected /\ running
          /\ prof.by # "none" /\ prof'.by # "none"
          /\ prof'.attempt = prof.attempt /\ prof'.left < prof.left )
        => since_drive = 0
      ]_vars

\* the last packet on the wire is a drive packet with throttle 0 and steer 0
LastIsZeroDrive(w) ==
    /\ w # <<>>
    /\ w[Len(w)].cmd = "drive"
    /\ w[Len(w)].throttle = 0
    /\ w[Len(w)].steer = 0

\* C22: when the command loop is left while connected, the zero drive packet
\* is sent, and nothing is sent after it: the wire does not change once
\* shutdown has started.
C22_ZeroCommandLast ==
    [][ /\ (app_pc \in {"loop", "profile"} /\ app_pc' \in {"shutdown", "done"} /\ connected)
           => (wire' # wire /\ LastIsZeroDrive(wire'))
        /\ app_pc \in {"shutdown", "done"} => wire' = wire
      ]_vars

\* the packets that carry the connection's sequence number
Sequenced(pkt) == pkt.cmd \in {"drive", "get_calibration"}

\* C23: every drive or get_calibration packet sent carries a sequence number
\* above that of every such packet sent before it, also after a failed send
\* and a reconnect.
C23_SeqIncreasing ==
    [][ /\ seq_num' >= seq_num
        /\ (wire' # wire /\ Sequenced(wire'[Len(wire')]))
           => /\ wire'[Len(wire')].seq = seq_num
              /\ seq_num' = seq_num + 1
              /\ \A i \in 1..Len(wire) :
                    Sequenced(wire[i]) => wire[i].seq < wire'[Len(wire')].seq
      ]_vars

\* a reconnect after a drive packet: the calibration request of the new
\* socket follows a drive packet on the wire
C23_Witness ==
    /\ Len(wire) = 2
    /\ wire[1].cmd = "drive"
    /\ wire[2].cmd = "get_calibration"
    /\ wire[2].seq > wire[1].seq

\* C24: the steer value of a drive packet is the controller's steer plus the
\* cached steering trim (clamped) exactly when |throttle| > 0.05; at or below
\* 0.05 it is the controller's steer whatever the trim. The calibration tool's
\* sender gates the trim in the same way.
C24_TrimGated ==
    [][ \A a \in HostAxes :
          (LoopTickP(a[1], a[2]) /\ wire' # wire /\ wire'[Len(wire')].cmd = "drive")
          => /\ wire'[Len(wire')].throttle = a[1]
             /\ wire'[Len(wire')].steer =
                   IF Abs(a[1]) > 50
                   THEN clamp(a[2] + steering_trim, -ONE, ONE)
                   ELSE a[2]
             /\ CalibrationTool_steer(a[1], a[2], steering_trim) =
                   IF Abs(a[1]) > 50
                   THEN clamp(a[2] + steering_trim, -ONE, ONE)
                   ELSE CalibrationTool_steer(a[1], a[2], 0)
      ]_vars

\* a drive packet with throttle 0.05 was sent while a non-zero trim is cached,
\* and it carries the controller's steer
C24_Witness ==
    /\ steering_trim # 0
    /\ wire # <<>>
    /\ wire[Len(wire)].cmd = "drive"
    /\ wire[Len(wire)].throttle = 50
    /\ wire[Len(wire)].steer = 300

\* C29: a robot_info reply from an IP that has no entry yet appends the entry
\* built from it; every other datagram leaves the list as it is. So the list
\* returned has, in arrival order, one entry per IP that sent a robot_info,
\* built from the first one.
C29_DiscoveryResult ==
    [][ \A r \in ScanReplies :
          ScanReceive(r)
          => IF r.kind = "robot_info" /\ ~(\E i \in 1..Len(robots) : robots[i].ip = r.ip)
             THEN robots' = Append(robots, robot_info(r))
             ELSE robots' = robots
      ]_vars

\* a packet udp_server can read in full: JSON with a cmd and a seq
ValidPacket(p) == p.json /\ p.cmd # "none" /\ p.seq # <<>>

\* C31: the indicators are moved to CLIENT_OK only by the first valid packet:
\* the handling of a datagram shows CLIENT_OK anew only when the datagram is
\* valid JSON with cmd and seq and no client was seen before.
C31_ClientOkOnFirstValid ==
    [][ \A p \in Datagrams :
          ( /\ UdpReceiveP(p)
            /\ \/ lcd_state' = STATE_CLIENT_OK /\ lcd_state # STATE_CLIENT_OK
               \/ ug_state' = STATE_CLIENT_OK /\ ug_state # STATE_CLIENT_OK )
          => (ValidPacket(p) /\ ~client_connected)
      ]_vars

\* C32: the state last given to the LCD and the state last given to the
\* underglow are the same once the robot runs; both are DRIVING after an
\* accepted drive packet.
C32_IndicatorsAgree == phase = "run" => lcd_state = ug_state

\* the receive timeouts of the first, second and third attempt
AttemptTimeouts == <<3000, 4000, 5000>>

\* C33: _send_profile_config makes at most three attempts, waits 3 s, 4 s and
\* 5 s for the reply in attempts 1, 2 and 3, returns on the first response
\* received whatever it is, and returns after the third timeout.
C33_ProfileRetry ==
    [][ /\ prof'.by # "none" => prof'.attempt \in 0..2
        /\ (prof'.by # "none" /\ prof'.pc = "recv" /\ prof' # prof /\ ~Blocked)
              => prof'.left = AttemptTimeouts[prof'.attempt + 1]
        /\ \A kind \in ProfReplyKinds : ProfReplyP(kind) => prof' = NoProfile
        /\ (ProfTimeout /\ prof.attempt = 2) => prof' = NoProfile
      ]_vars

\* duty 0 and both direction lines low
Coast == [pwm |-> 0, in1 |-> 0, in2 |-> 0, current_speed |-> 0]

\* C34: stop leaves duty 0 and both direction lines low, a second stop leaves
\* the same state, and set_speed with |v| < 0.01 leaves exactly that state
\* whatever the motor did before.
C34_CoastState ==
    /\ left_motor.call = "stop"
          => (left_motor.m = Coast /\ Motor_stop(left_motor.m) = left_motor.m)
    /\ (left_motor.call = "set_speed" /\ Abs(left_motor.arg) < 10)
          => (left_motor.m = Coast /\ left_motor.m = Motor_stop(left_motor.prev))

\* the motor ran in reverse and set_speed(0.009) has put it in the coast state
C34_Witness ==
    /\ left_motor.call = "set_speed"
    /\ left_motor.arg = 9
    /\ left_motor.prev.in1 = 1
    /\ left_motor.prev.pwm > 0
    /\ left_motor.m = Coast

\* C40: the two direction lines are never both high, and the duty is non-zero
\* only while exactly one of them is high.
C40_DirectionLines ==
    /\ ~(left_motor.m.in1 = 1 /\ left_motor.m.in2 = 1)
    /\ left_motor.m.pwm # 0 => left_motor.m.in1 + left_motor.m.in2 = 1

\* the motor ran forward and a set_speed call has reversed it
C40_Witness ==
    /\ left_motor.call = "set_speed"
    /\ left_motor.prev.in2 = 1
    /\ left_motor.prev.pwm > 0
    /\ left_motor.m.in1 = 1
    /\ left_motor.m.pwm > 0

\* C35: every drive packet on the wire has throttle and steer within [-1, 1],
\* and so has the packet send_drive_command makes of the pair the keyboard
\* controller returned, under the trim cached at the time.
C35_AxesInRange ==
    /\ \A i \in 1..Len(wire) :
          wire[i].cmd = "drive"
          => (wire[i].throttle \in -ONE..ONE /\ wire[i].steer \in -ONE..ONE)
    /\ Round3(kbd.out[1]) \in -ONE..ONE
    /\ calibrated_steer(Round3(kbd.out[1]), Round3(kbd.out[2])) \in -ONE..ONE

\* a drive packet was sent under a cached trim of 5.0 with the throttle above
\* the gate: its steer is held at 1.0
C35_Witness ==
    /\ steering_trim = 5000
    /\ wire # <<>>
    /\ wire[Len(wire)].cmd = "drive"
    /\ wire[Len(wire)].throttle > 50
    /\ wire[Len(wire)].steer = ONE

\* C36: get_axes returns exactly 0 on an axis whose raw value is below
\* DEAD_ZONE (0.08) in magnitude, the steering axis and the throttle axis
\* alike, and at DEAD_ZONE itself the rescaled value is 0.
C36_Deadzone ==
    [][ \A raw \in XboxRaw :
          XboxTickP(raw)
          => /\ Abs(raw[3]) < 800 => Xbox_get_axes(raw)[2] = 0
             /\ Abs(throttle_raw(raw[1], raw[2])) < 800 => Xbox_get_axes(raw)[1] = 0
             /\ apply_deadzone(800, DEAD_ZONE) = 0
      ]_vars

\* C37: a drive packet without ts, or with ts <= 0, is never rejected as
\* stale: on the UDP path and on the TCP path alike it feeds the watchdog
\* (timer restarted, timeout cleared), enables the motors and sets both wheels
\* to the mix of its axes.
C37_NoTsNeverStale ==
    [][ \A p \in {q \in TsPackets : q.ts <= 0} :
          \/ /\ last_packet_time' = now
             /\ ~timed_out'
             /\ motor_enabled'
             /\ left_speed' = set_speed(mix(p.throttle, p.steer)[1])
             /\ right_speed' = set_speed(mix(p.throttle, p.steer)[2])
             /\ lcd_state' = STATE_DRIVING
          \/ ~(UdpReceiveP(p) \/ TcpLineP(p)) ]_vars

\* the watchdog has tripped with the wheels stopped, long after the last
\* accepted packet, a TCP client is connected, and a drive packet with
\* negative ts and non-zero axes is about to be handled on either path
C37_Witness ==
    /\ timed_out
    /\ Stopped
    /\ Elapsed > UDP_MAX_AGE_MS
    /\ tcp_open
    /\ \E p \in TsPackets :
          /\ p.ts < 0 /\ p.throttle # 0
          /\ ENABLED UdpReceiveP(p)
          /\ ENABLED TcpLineP(p)

\* C38: once the main loop has exited, shutdown has run: both wheels are
\* stopped and the motor controller is disabled, at the exit and in every
\* later state, so no drive packet is applied after shutdown began.
C38_ShutdownStopsMotors ==
    [][ phase' = "terminated" => (left_speed' = 0 /\ right_speed' = 0 /\ ~motor_enabled') ]_vars

\* the main loop is about to exit while the robot is driving
C38_Witness ==
    /\ phase = "run"
    /\ motor_enabled
    /\ left_speed # 0
    /\ ~timed_out
    /\ ENABLED MainLoopExit

====
